---- MODULE Spec2Model ----
(***************************************************************************)
(* Model of the NutriBuddy prompt module (src/prompts.ts): buildMessages,  *)
(* the module-level values it reads and the callers that hold its results. *)
(*                                                                         *)
(* Text.  A JavaScript string is a sequence of chunks; a chunk is a TLA+   *)
(* string standing for that exact piece of text.  Text typed by a caller   *)
(* is one chunk per character; a literal of the source is one chunk (or a  *)
(* few), so concatenation is \o and equality of texts is equality of the   *)
(* sequences.  Characters outside ASCII in the literals of the source are  *)
(* transliterated ("~" for the approximately-equal sign, "--" for the      *)
(* dash, "e" for e-acute).                                                 *)
(*                                                                         *)
(* Values.  A JavaScript value is a Node record: t is its type tag, n the  *)
(* integer part of a number (or 0/1 of a boolean), s the text of a string  *)
(* (or the fraction digits of a number), a the elements of an array or the *)
(* entries of an object in insertion order, k the key under which the      *)
(* value sits in its parent object ("" elsewhere).                         *)
(***************************************************************************)
EXTENDS Integers, Sequences, FiniteSets, TLC

\* ------------------------------------------------------------------------
\* Bounds of the model
\* ------------------------------------------------------------------------
MaxLen == 2
MaxMutations == 1
ParseMaxLen == 3
NumSites == 2
MaxMessages == 2
MaxChatSaves == 1
MaxSaves == 51
MaxDeletes == 1

\* ------------------------------------------------------------------------
\* Text helpers (String.prototype methods)
\* ------------------------------------------------------------------------
StartsWith(str, pre) ==
  /\ Len(pre) <= Len(str)
  /\ SubSeq(str, 1, Len(pre)) = pre

IsWhitespace(c) == c \in {" ", "\n", "\t", "\r"}

RECURSIVE TrimStart(_)
TrimStart(str) ==
  IF str # <<>> /\ IsWhitespace(Head(str)) THEN TrimStart(Tail(str)) ELSE str

RECURSIVE TrimEnd(_)
TrimEnd(str) ==
  IF str # <<>> /\ IsWhitespace(str[Len(str)])
  THEN TrimEnd(SubSeq(str, 1, Len(str) - 1))
  ELSE str

Trim(str) == TrimEnd(TrimStart(str))

\* ------------------------------------------------------------------------
\* JavaScript values
\* ------------------------------------------------------------------------
Node(k, t, n, s, a) == [k |-> k, t |-> t, n |-> n, s |-> s, a |-> a]

Undefined == Node("", "undefined", 0, <<>>, <<>>)
Str(s) == Node("", "string", 0, s, <<>>)
Num(n) == Node("", "number", n, <<>>, <<>>)
Frac(n, digits) == Node("", "number", n, digits, <<>>)
Bool(b) == Node("", "boolean", IF b THEN 1 ELSE 0, <<>>, <<>>)
Arr(a) == Node("", "array", 0, <<>>, a)
Obj(a) == Node("", "object", 0, <<>>, a)
Null == Node("", "null", 0, <<>>, <<>>)
Field(k, v) == [v EXCEPT !.k = k]

\* ------------------------------------------------------------------------
\* JSON.stringify
\* ------------------------------------------------------------------------
Digit(d) == <<"0", "1", "2", "3", "4", "5", "6", "7", "8", "9">>[d + 1]

RECURSIVE NatToString(_)
NatToString(n) ==
  IF n < 10 THEN <<Digit(n)>> ELSE NatToString(n \div 10) \o <<Digit(n % 10)>>

NumberToString(v) ==
  (IF v.n < 0 THEN <<"-">> \o NatToString(0 - v.n) ELSE NatToString(v.n))
    \o (IF v.s = <<>> THEN <<>> ELSE <<".">> \o v.s)

QuoteChar(c) ==
  CASE c = "\"" -> <<"\\", "\"">>
    [] c = "\\" -> <<"\\", "\\">>
    [] c = "\n" -> <<"\\", "n">>
    [] c = "\t" -> <<"\\", "t">>
    [] c = "\r" -> <<"\\", "r">>
    [] OTHER -> <<c>>

RECURSIVE QuoteBody(_)
QuoteBody(s) ==
  IF s = <<>> THEN <<>> ELSE QuoteChar(Head(s)) \o QuoteBody(Tail(s))

Quote(s) == <<"\"">> \o QuoteBody(s) \o <<"\"">>

RECURSIVE JSONstringify(_)
RECURSIVE SerializeArray(_, _)
RECURSIVE SerializeObject(_, _)

\* the elements of an array, separated by commas; undefined becomes null.
\* A list is cut in halves so that a long one does not nest deeply.
SerializeArray(a, first) ==
  IF a = <<>> THEN <<>>
  ELSE IF Len(a) = 1
    THEN (IF first THEN <<>> ELSE <<",">>)
           \o (IF Head(a).t = "undefined" THEN <<"null">> ELSE JSONstringify(Head(a)))
  ELSE SerializeArray(SubSeq(a, 1, Len(a) \div 2), first)
         \o SerializeArray(SubSeq(a, Len(a) \div 2 + 1, Len(a)), FALSE)

\* the entries of an object in key order; an undefined value drops its key
SerializeObject(a, first) ==
  IF a = <<>> THEN <<>>
  ELSE IF Head(a).t = "undefined" THEN SerializeObject(Tail(a), first)
  ELSE (IF first THEN <<>> ELSE <<",">>)
         \o <<"\"", Head(a).k, "\"", ":">>
         \o JSONstringify(Head(a))
         \o SerializeObject(Tail(a), FALSE)

JSONstringify(v) ==
  CASE v.t = "string" -> Quote(v.s)
    [] v.t = "number" -> NumberToString(v)
    [] v.t = "boolean" -> IF v.n = 1 THEN <<"true">> ELSE <<"false">>
    [] v.t = "array" -> <<"[">> \o SerializeArray(v.a, TRUE) \o <<"]">>
    [] v.t = "object" -> <<"{">> \o SerializeObject(v.a, TRUE) \o <<"}">>
    [] v.t = "null" -> <<"null">>
    [] OTHER -> <<>>

\* ------------------------------------------------------------------------
\* Values imported from ./config
\* ------------------------------------------------------------------------
AI_NAME == <<"${AI_NAME}">>
OWNER_NAME == <<"${OWNER_NAME}">>
DATE_AND_TIME == <<"${DATE_AND_TIME}">>

\* ------------------------------------------------------------------------
\* Prompt sections (template literals, trimmed)
\* ------------------------------------------------------------------------
IDENTITY_PROMPT ==
  Trim(<<"\n", "You are ">> \o AI_NAME
       \o <<", an agentic assistant. You are designed by ">> \o OWNER_NAME
       \o <<", not OpenAI, Anthropic, or any other third-party AI vendor.", "\n">>)

TOOL_CALLING_PROMPT ==
  Trim(<<"\n",
         "- In order to be as truthful as possible, call tools to gather context before answering.",
         "\n",
         "- Prioritize retrieving from the vector database; if the answer is not found there, then search the web.",
         "\n">>)

TONE_STYLE_PROMPT ==
  Trim(<<"\n",
         "- Maintain a friendly, approachable, and helpful tone at all times.",
         "\n",
         "- If a student is struggling, break down concepts, employ simple language, and use metaphors when they help clarify complex ideas.",
         "\n">>)

GUARDRAILS_PROMPT ==
  Trim(<<"\n",
         "- Strictly refuse and end engagement if a request involves dangerous, illegal, shady, or inappropriate activities.",
         "\n">>)

CITATIONS_PROMPT ==
  Trim(<<"\n",
         "- Always cite your sources using inline markdown, e.g., [Source #](https://example.com).",
         "\n",
         "- Do not ever write [Source #] without providing the URL as a markdown link.",
         "\n">>)

COURSE_CONTEXT_PROMPT ==
  Trim(<<"\n",
         "- Most basic questions about the course can be answered by reading the syllabus.",
         "\n">>)

NUTRIBUDDY_GUIDANCE ==
  Trim(<<"\n",
         "You are NutriBuddy -- a friendly nutrition & meal-planning assistant with these core responsibilities:", "\n",
         " - Log food items and estimate calories and macros when asked.", "\n",
         " - Keep track of the user's daily kcal progress vs their goal.", "\n",
         " - Suggest recipes and meals based on ingredients provided and dietary preferences.", "\n",
         " - Ask focused clarifying questions when key details are missing (e.g., portion size, brand, or preparation method).", "\n",
         " - When asked to output structured data (the app will set requireJSONResponse=true), respond with ONLY valid JSON that follows the schema described below.", "\n",
         "\n",
         "JSON schema (the assistant must follow when app requests JSON):", "\n",
         "{", "\n",
         "  \"intent\": \"<string: one of log_food | suggest_meal | get_snapshot | set_goal | greet | farewell | ask_clarifying | info | generic>\",", "\n",
         "  \"fulfillment_text\": \"<human-friendly reply (string)>\",", "\n",
         "  \"data\": { /* intent-specific payload: see examples below */ },", "\n",
         "  \"follow_up\": {", "\n",
         "    \"should_ask\": boolean,", "\n",
         "    \"questions\": [ \"<question 1>\", \"<question 2>\" ]", "\n",
         "  }", "\n",
         "}", "\n",
         "\n",
         "Example payloads:", "\n",
         " - log_food: data = { items: [{name, quantity, kcal}], added_kcal, new_total_kcal, goal_kcal, progress_percent }", "\n",
         " - suggest_meal: data = { suggestions: [{title, ingredients, est_kcal, short_prep}], ... }", "\n",
         " - get_snapshot: data = { today_kcal_consumed, remaining_kcal, goal_kcal, top_items }", "\n",
         " - set_goal: data = { new_goal_kcal }", "\n",
         "\n",
         "Label estimates clearly (e.g., \"~220 kcal\") and avoid definitive medical claims.", "\n",
         "If the user requests medical or therapeutic diet advice, refuse to provide specialized medical guidance and recommend a registered dietitian or doctor.",
         "\n">>)

Section(tag, body) ==
  <<"<" \o tag \o ">", "\n">> \o body \o <<"\n", "</" \o tag \o ">">>

SYSTEM_PROMPT ==
  Trim(<<"\n">> \o IDENTITY_PROMPT \o <<"\n", "\n">>
       \o Section("tool_calling", TOOL_CALLING_PROMPT) \o <<"\n", "\n">>
       \o Section("tone_style", TONE_STYLE_PROMPT) \o <<"\n", "\n">>
       \o Section("guardrails", GUARDRAILS_PROMPT) \o <<"\n", "\n">>
       \o Section("citations", CITATIONS_PROMPT) \o <<"\n", "\n">>
       \o Section("course_context", COURSE_CONTEXT_PROMPT) \o <<"\n", "\n">>
       \o Section("nutribuddy", NUTRIBUDDY_GUIDANCE) \o <<"\n", "\n">>
       \o Section("date_time", DATE_AND_TIME) \o <<"\n">>)

\* ------------------------------------------------------------------------
\* Few-shot examples: the initial contents of the module-level array
\* ------------------------------------------------------------------------
LogFoodExample ==
  Obj(<<
    Field("intent", Str(<<"log_food">>)),
    Field("fulfillment_text",
          Str(<<"Logged 2 boiled eggs (~156 kcal) and 1 slice whole-wheat toast (~70 kcal). Added ~226 kcal to today.">>)),
    Field("data", Obj(<<
      Field("items", Arr(<<
        Obj(<<Field("name", Str(<<"Boiled egg">>)),
              Field("quantity", Str(<<"2">>)),
              Field("kcal", Num(156))>>),
        Obj(<<Field("name", Str(<<"Whole wheat toast">>)),
              Field("quantity", Str(<<"1 slice">>)),
              Field("kcal", Num(70))>>)>>)),
      Field("added_kcal", Num(226)),
      Field("new_total_kcal", Num(226)),
      Field("goal_kcal", Num(2000)),
      Field("progress_percent", Frac(11, <<"3">>))>>)),
    Field("follow_up", Obj(<<
      Field("should_ask", Bool(FALSE)),
      Field("questions", Arr(<<>>))>>))>>)

SuggestMealExample ==
  Obj(<<
    Field("intent", Str(<<"suggest_meal">>)),
    Field("fulfillment_text",
          Str(<<"Here are 3 vegetarian lunch ideas under ~600 kcal using those ingredients. Which would you like the recipe for?">>)),
    Field("data", Obj(<<
      Field("suggestions", Arr(<<
        Obj(<<Field("title", Str(<<"Chickpea & Spinach Curry with Brown Rice">>)),
              Field("ingredients",
                    Arr(<<Str(<<"chickpeas">>), Str(<<"spinach">>), Str(<<"tomato">>),
                          Str(<<"onion">>), Str(<<"spices">>), Str(<<"1/2 cup brown rice">>)>>)),
              Field("est_kcal", Num(520)),
              Field("short_prep",
                    Str(<<"Saute onion, add tomatoes & spices, add chickpeas & spinach, simmer. Serve with cooked brown rice.">>))>>),
        Obj(<<Field("title", Str(<<"Savory Oat & Chickpea Patties with Tomato Chutney">>)),
              Field("ingredients",
                    Arr(<<Str(<<"oats">>), Str(<<"chickpeas">>), Str(<<"spinach">>),
                          Str(<<"tomato">>), Str(<<"garlic">>)>>)),
              Field("est_kcal", Num(470))>>)>>))>>)),
    Field("follow_up", Obj(<<
      Field("should_ask", Bool(TRUE)),
      Field("questions", Arr(<<Str(<<"Which recipe would you like?">>)>>))>>))>>)

Message(role, content) == [role |-> role, content |-> content]

FewShotInit ==
  << Message("user",
       <<"Hi, my daily calorie goal is 2000 kcal. I had 2 boiled eggs and one slice whole wheat toast this morning. Please log that.">>),
     Message("assistant", JSONstringify(LogFoodExample)),
     Message("user",
       <<"I have chickpeas, tomatoes, spinach, and oats. Vegetarian -- want lunch under 600 kcal. Suggestions?">>),
     Message("assistant", JSONstringify(SuggestMealExample)),
     Message("user", <<"I had a bowl of cereal this morning.">>),
     Message("assistant",
       <<"Could you tell me which cereal (brand) and approximate portion (cups or grams)? If unknown, tell me bowl size (small/medium/large).">>) >>

\* ------------------------------------------------------------------------
\* Language semantics used by buildMessages
\* ------------------------------------------------------------------------
\* truthiness of a value (the conditions of && and ?:)
Truthy(v) ==
  CASE v.t = "undefined" -> FALSE
    [] v.t = "null" -> FALSE
    [] v.t = "boolean" -> v.n = 1
    [] v.t = "string" -> v.s # <<>>
    [] v.t = "number" -> v.n # 0 \/ v.s # <<>>
    [] OTHER -> TRUE

\* a destructuring default applies exactly when the property is undefined
Default(v, d) == IF v.t = "undefined" THEN d ELSE v

\* Object.keys: the own keys in insertion order, whatever their values
ObjectKeys(o) == [i \in 1..Len(o.a) |-> o.a[i].k]

\* Object.keys raises a TypeError on undefined
ObjectKeysThrows(o) == o.t = "undefined"

\* ------------------------------------------------------------------------
\* buildMessages
\* ------------------------------------------------------------------------
DefaultUserName == Str(<<"User">>)

DefaultRequireJSONResponseFalse == Bool(FALSE)

DefaultRequireJSONResponse == Bool(TRUE)

DefaultLanguage == Str(<<"English">>)

NotProvided == <<"Not provided", ".">>

ProfileBlockInverted(userProfile) ==
  IF Truthy(userProfile)
  THEN <<"User profile: ">> \o NotProvided
  ELSE <<"User profile: ">> \o JSONstringify(userProfile) \o <<".">>

ProfileBlockDefaulted(userProfile) ==
  IF Truthy(userProfile) /\ Len(ObjectKeys(userProfile)) # 0
  THEN <<"User profile: ">>
         \o JSONstringify(Obj(Append(userProfile.a, Field("weight_kg", Num(0)))))
         \o <<".">>
  ELSE <<"User profile: ">> \o NotProvided

ProfileBlock(userProfile) ==
  IF Truthy(userProfile) /\ Len(ObjectKeys(userProfile)) # 0
  THEN <<"User profile: ">> \o JSONstringify(userProfile) \o <<".">>
  ELSE <<"User profile: ">> \o NotProvided

SessionBlockEmptyWhenAbsent(sessionState) ==
  IF Truthy(sessionState) /\ Len(ObjectKeys(sessionState)) # 0
  THEN <<"Session state: ">> \o JSONstringify(sessionState) \o <<".">>
  ELSE <<>>

SessionBlock(sessionState) ==
  IF Truthy(sessionState) /\ Len(ObjectKeys(sessionState)) # 0
  THEN <<"Session state: ">> \o JSONstringify(sessionState) \o <<".">>
  ELSE <<"Session state: ">> \o NotProvided

\* the guard userProfile && ... keeps Object.keys from seeing undefined
ProfileBlockThrowsUnguarded(userProfile) == ObjectKeysThrows(userProfile)

ProfileBlockThrows(userProfile) ==
  Truthy(userProfile) /\ ObjectKeysThrows(userProfile)

SessionBlockThrows(sessionState) ==
  Truthy(sessionState) /\ ObjectKeysThrows(sessionState)

StrictDirective ==
  <<"IMPORTANT: Respond with ONLY valid JSON using the schema in the system prompt. Do NOT include any extra explanatory text.">>

PermissiveDirective(language) ==
  <<"You may respond in natural ">> \o language
    \o <<" text. If helpful, include a short JSON payload labeled \"assistant_payload\".">>

JsonInstructionAlwaysStrict(requireJSONResponse, language) ==
  <<"\n", "\n">> \o StrictDirective

JsonInstructionEnglish(requireJSONResponse, language) ==
  IF Truthy(requireJSONResponse)
  THEN <<"\n", "\n">> \o StrictDirective
  ELSE <<"\n", "\n">> \o PermissiveDirective(DefaultLanguage.s)

JsonInstruction(requireJSONResponse, language) ==
  IF Truthy(requireJSONResponse)
  THEN <<"\n", "\n">> \o StrictDirective
  ELSE <<"\n", "\n">> \o PermissiveDirective(language.s)

SessionContext(userName, userProfile, sessionState, requireJSONResponse, language) ==
  <<"Context for this session:", "\n">>
    \o <<"User display name: ">> \o userName.s \o <<".", "\n">>
    \o ProfileBlock(userProfile)
    \o <<"\n">>
    \o SessionBlock(sessionState)
    \o <<"\n", "Assistant response language: ">> \o language.s \o <<".">>
    \o JsonInstruction(requireJSONResponse, language)

\* A message object of a returned array: ref = 0 for an object created by
\* the call, ref = i when it is the very object fewShotExamples[i].
MessageObject(role, content) == [role |-> role, content |-> content, ref |-> 0]

PushExampleByReference(ex, i) == [role |-> ex.role, content |-> ex.content, ref |-> i]

PushExample(ex, i) == MessageObject(ex.role, ex.content)

AppendFewShotSkipLast(messages, examples) ==
  messages \o [i \in 1..(Len(examples) - 1) |-> PushExample(examples[i], i)]

AppendFewShot(messages, examples) ==
  messages \o [i \in 1..Len(examples) |-> PushExample(examples[i], i)]

LiveUserMessageTrimmed(userMessage) == MessageObject("user", Trim(userMessage.s))

LiveUserMessage(userMessage) == MessageObject("user", userMessage.s)

\* the argument object after the call: destructuring and the two stringify
\* calls only read it
OptsAfterCallDefaultsWritten(opts) ==
  [opts EXCEPT !.userName = Default(@, DefaultUserName),
               !.requireJSONResponse = Default(@, DefaultRequireJSONResponse),
               !.language = Default(@, DefaultLanguage)]

OptsAfterCall(opts) == opts

buildMessagesThrowsOnBlank(opts) ==
  \/ ProfileBlockThrows(opts.userProfile)
  \/ SessionBlockThrows(opts.sessionState)
  \/ Trim(opts.userMessage.s) = <<>>

buildMessagesThrows(opts) ==
  \/ ProfileBlockThrows(opts.userProfile)
  \/ SessionBlockThrows(opts.sessionState)

buildMessages(opts, examples) ==
  LET userName == Default(opts.userName, DefaultUserName)
      requireJSONResponse == Default(opts.requireJSONResponse, DefaultRequireJSONResponse)
      language == Default(opts.language, DefaultLanguage)
      head == << MessageObject("system", SYSTEM_PROMPT),
                 MessageObject("system",
                   SessionContext(userName, opts.userProfile, opts.sessionState,
                                  requireJSONResponse, language)) >>
  IN  AppendFewShot(head, examples) \o <<LiveUserMessage(opts.userMessage)>>

\* ------------------------------------------------------------------------
\* JSON.parse.  A text is read chunk by chunk: the structural characters, the
\* quote, the backslash, the digits and the blanks are chunks of their own, as
\* are the literals true, false and null; any other chunk is ordinary text,
\* which JSON admits only inside a string.  Texts carry no exponent and no
\* \u escape.
\* ------------------------------------------------------------------------
IsDigit(c) == c \in {"0", "1", "2", "3", "4", "5", "6", "7", "8", "9"}

DigitValue(c) == CHOOSE d \in 0..9 : Digit(d) = c

ParseResult(v, i) == [ok |-> TRUE, v |-> v, i |-> i]

ParseFailure == [ok |-> FALSE, v |-> Undefined, i |-> 0]

RECURSIVE SkipWhitespace(_, _)
SkipWhitespace(s, i) ==
  IF i <= Len(s) /\ IsWhitespace(s[i]) THEN SkipWhitespace(s, i + 1) ELSE i

Unescape(c) ==
  CASE c = "n" -> "\n"
    [] c = "t" -> "\t"
    [] c = "r" -> "\r"
    [] OTHER -> c

\* the characters of a string up to its closing quote; i is the position
\* after the opening quote
RECURSIVE ParseStringBody(_, _, _)
ParseStringBody(s, i, acc) ==
  IF i > Len(s) THEN ParseFailure
  ELSE IF s[i] = "\"" THEN ParseResult(Str(acc), i + 1)
  ELSE IF s[i] = "\\"
       THEN IF i + 1 <= Len(s) /\ s[i + 1] \in {"\"", "\\", "/", "n", "t", "r"}
            THEN ParseStringBody(s, i + 2, Append(acc, Unescape(s[i + 1])))
            ELSE ParseFailure
  ELSE IF s[i] \in {"\n", "\t", "\r"} THEN ParseFailure
  ELSE ParseStringBody(s, i + 1, Append(acc, s[i]))

\* the position after the run of digits that starts at i
RECURSIVE DigitsEnd(_, _)
DigitsEnd(s, i) ==
  IF i <= Len(s) /\ IsDigit(s[i]) THEN DigitsEnd(s, i + 1) ELSE i

RECURSIVE DigitsValue(_)
DigitsValue(ds) ==
  IF ds = <<>> THEN 0
  ELSE 10 * DigitsValue(SubSeq(ds, 1, Len(ds) - 1)) + DigitValue(ds[Len(ds)])

RECURSIVE StripZeros(_)
StripZeros(ds) ==
  IF ds # <<>> /\ ds[Len(ds)] = "0" THEN StripZeros(SubSeq(ds, 1, Len(ds) - 1)) ELSE ds

ParseNumber(s, i) ==
  LET neg == s[i] = "-"
      j == IF neg THEN i + 1 ELSE i
      \* a leading 0 stands alone
      k == IF j <= Len(s) /\ s[j] = "0" THEN j + 1 ELSE DigitsEnd(s, j)
      int == DigitsValue(SubSeq(s, j, k - 1))
      dot == k <= Len(s) /\ s[k] = "."
      m == IF dot THEN DigitsEnd(s, k + 1) ELSE k
      frac == IF dot THEN StripZeros(SubSeq(s, k + 1, m - 1)) ELSE <<>>
  IN  IF k = j \/ (dot /\ m = k + 1) THEN ParseFailure
      ELSE ParseResult(Frac(IF neg THEN 0 - int ELSE int, frac), m)

RECURSIVE Concat(_)
Concat(chunks) == IF chunks = <<>> THEN "" ELSE Head(chunks) \o Concat(Tail(chunks))

\* a repeated key keeps its first position and takes the last value
PutMember(members, key, v) ==
  IF \E x \in 1..Len(members) : members[x].k = key
  THEN [x \in 1..Len(members) |->
          IF members[x].k = key THEN Field(key, v) ELSE members[x]]
  ELSE Append(members, Field(key, v))

RECURSIVE ParseValue(_, _)
RECURSIVE ParseMembers(_, _, _, _)
RECURSIVE ParseElements(_, _, _, _)
RECURSIVE ParseRun(_, _, _)

\* the members of an object; i is the position of the next member or, in an
\* object without members yet, of the closing brace
ParseMembers(s, i, acc, first) ==
  IF i > Len(s) THEN ParseFailure
  ELSE IF first /\ s[i] = "}" THEN ParseResult(Obj(acc), i + 1)
  ELSE IF s[i] # "\"" THEN ParseFailure
  ELSE
    LET key == ParseStringBody(s, i + 1, <<>>)
        colon == SkipWhitespace(s, key.i)
        val == ParseValue(s, colon + 1)
        sep == SkipWhitespace(s, val.i)
        members == PutMember(acc, Concat(key.v.s), val.v)
    IN  IF ~key.ok \/ colon > Len(s) THEN ParseFailure
        ELSE IF s[colon] # ":" THEN ParseFailure
        ELSE IF ~val.ok \/ sep > Len(s) THEN ParseFailure
        ELSE IF s[sep] = "}" THEN ParseResult(Obj(members), sep + 1)
        ELSE IF s[sep] = "," THEN ParseMembers(s, SkipWhitespace(s, sep + 1), members, FALSE)
        ELSE ParseFailure

Run(done, vs, i) == [ok |-> TRUE, done |-> done, vs |-> vs, i |-> i]

RunFailure == [ok |-> FALSE, done |-> FALSE, vs |-> <<>>, i |-> 0]

\* up to k elements of an array; i is the position of the next element, and
\* done tells that the closing bracket was read.  A run of several elements
\* is read as two shorter runs so that a long array does not nest deeply.
ParseRun(s, i, k) ==
  IF k = 1
  THEN LET val == ParseValue(s, i)
           sep == SkipWhitespace(s, val.i)
       IN  IF ~val.ok \/ sep > Len(s) THEN RunFailure
           ELSE IF s[sep] = "]" THEN Run(TRUE, <<val.v>>, sep + 1)
           ELSE IF s[sep] = "," THEN Run(FALSE, <<val.v>>, SkipWhitespace(s, sep + 1))
           ELSE RunFailure
  ELSE LET head == ParseRun(s, i, k \div 2) IN
         IF ~head.ok \/ head.done THEN head
         ELSE LET rest == ParseRun(s, head.i, k - k \div 2) IN
                IF ~rest.ok THEN RunFailure
                ELSE Run(rest.done, head.vs \o rest.vs, rest.i)

\* the elements of an array, read in runs of k, 2k, 4k, ... elements; i is
\* the position of the next element or, in an array without elements yet, of
\* the closing bracket
ParseElements(s, i, acc, k) ==
  IF i > Len(s) THEN ParseFailure
  ELSE IF acc = <<>> /\ k = 1 /\ s[i] = "]" THEN ParseResult(Arr(acc), i + 1)
  ELSE
    LET run == ParseRun(s, i, k) IN
      IF ~run.ok THEN ParseFailure
      ELSE IF run.done THEN ParseResult(Arr(acc \o run.vs), run.i)
      ELSE ParseElements(s, run.i, acc \o run.vs, 2 * k)

ParseValue(s, i0) ==
  LET i == SkipWhitespace(s, i0) IN
    IF i > Len(s) THEN ParseFailure
    ELSE CASE s[i] = "{" -> ParseMembers(s, SkipWhitespace(s, i + 1), <<>>, TRUE)
           [] s[i] = "[" -> ParseElements(s, SkipWhitespace(s, i + 1), <<>>, 1)
           [] s[i] = "\"" -> ParseStringBody(s, i + 1, <<>>)
           [] s[i] = "true" -> ParseResult(Bool(TRUE), i + 1)
           [] s[i] = "false" -> ParseResult(Bool(FALSE), i + 1)
           [] s[i] = "null" -> ParseResult(Null, i + 1)
           [] IsDigit(s[i]) \/ s[i] = "-" -> ParseNumber(s, i)
           [] OTHER -> ParseFailure

\* ok = FALSE stands for the SyntaxError JSON.parse raises
JSONparse(str) ==
  LET r == ParseValue(str, 1) IN
    IF r.ok /\ SkipWhitespace(str, r.i) > Len(str)
    THEN [ok |-> TRUE, v |-> r.v]
    ELSE [ok |-> FALSE, v |-> Undefined]

\* ------------------------------------------------------------------------
\* parseAssistantJson.  Its result is the value returned (Null is the
\* "absent" result), whether an exception left the function, and the texts
\* handed to JSON.parse on the way.
\* ------------------------------------------------------------------------
\* String.prototype.indexOf and lastIndexOf, counting from 0, -1 when missing
IndexOf(str, c) ==
  IF \E i \in 1..Len(str) : str[i] = c
  THEN (CHOOSE i \in 1..Len(str) : str[i] = c /\ \A j \in 1..(i - 1) : str[j] # c) - 1
  ELSE 0 - 1

LastIndexOf(str, c) ==
  IF \E i \in 1..Len(str) : str[i] = c
  THEN (CHOOSE i \in 1..Len(str) : str[i] = c /\ \A j \in (i + 1)..Len(str) : str[j] # c) - 1
  ELSE 0 - 1

Clamp(i, n) == IF i < 0 THEN 0 ELSE IF i > n THEN n ELSE i

\* String.prototype.substring(start, end): indexes from 0, end excluded,
\* out-of-range indexes clamped, the two swapped when start > end
Substring(str, start, end) ==
  LET a == Clamp(start, Len(str))
      b == Clamp(end, Len(str))
  IN  SubSeq(str, (IF a < b THEN a ELSE b) + 1, IF a < b THEN b ELSE a)

Outcome(value, threw, attempts) == [value |-> value, threw |-> threw, attempts |-> attempts]

ReturnNull == Outcome(Null, FALSE, <<>>)

TryParseUncaught(str) ==
  LET r == JSONparse(str) IN
    IF r.ok THEN Outcome(r.v, FALSE, <<str>>) ELSE Outcome(Null, TRUE, <<str>>)

\* return JSON.parse(str) inside the try: a SyntaxError is caught and the
\* function goes on to its final return null
TryParse(str) ==
  LET r == JSONparse(str) IN
    IF r.ok THEN Outcome(r.v, FALSE, <<str>>) ELSE Outcome(Null, FALSE, <<str>>)

StartsStructuredAlways(trimmed) == TRUE

StartsStructured(trimmed) ==
  StartsWith(trimmed, <<"{">>) \/ StartsWith(trimmed, <<"[">>)

PairFoundAnyOrder(first, last) == first # 0 - 1 /\ last # 0 - 1

PairFound(first, last) == first # 0 - 1 /\ last # 0 - 1 /\ last > first

SubstringSpanExclusive(trimmed, first, last) == Substring(trimmed, first, last)

\* a bracket-balancing extraction: the first '{' up to the nearest '}' that
\* closes a JSON value
SubstringSpanBalanced(trimmed, first, last) ==
  LET ends == {j \in first..last :
                 trimmed[j + 1] = "}" /\ JSONparse(Substring(trimmed, first, j + 1)).ok}
  IN  IF ends = {} THEN Substring(trimmed, first, last + 1)
      ELSE Substring(trimmed, first, (CHOOSE j \in ends : \A k \in ends : j <= k) + 1)

SubstringSpan(trimmed, first, last) == Substring(trimmed, first, last + 1)

SubstringStep(trimmed) ==
  LET first == IndexOf(trimmed, "{")
      last == LastIndexOf(trimmed, "}")
  IN  IF PairFound(first, last)
      THEN TryParse(SubstringSpan(trimmed, first, last))
      ELSE ReturnNull

WholeTextThenSubstring(trimmed) ==
  LET r == TryParse(trimmed)
      q == SubstringStep(trimmed)
  IN  IF r.value # Null THEN r ELSE Outcome(q.value, q.threw, r.attempts \o q.attempts)

WholeText(trimmed) == TryParse(trimmed)

parseAssistantJson(text) ==
  IF ~Truthy(text) THEN ReturnNull
  ELSE LET trimmed == Trim(text.s) IN
         IF StartsStructured(trimmed) THEN WholeText(trimmed) ELSE SubstringStep(trimmed)

\* ------------------------------------------------------------------------
\* Requests the callers make
\* ------------------------------------------------------------------------
Alphabet == {" ", "a"}

RECURSIVE Texts(_)
Texts(n) ==
  IF n = 0 THEN {<<>>}
  ELSE Texts(n - 1) \cup {Append(t, c) : t \in {u \in Texts(n - 1) : Len(u) = n - 1}, c \in Alphabet}

UserNames == {Undefined, Str(<<"R", "i", "y", "a">>)}

SampleProfile ==
  Obj(<<Field("name", Str(<<"R", "\"", "i">>)),
        Field("age", Num(28)),
        Field("sex", Undefined),
        Field("dietary_preferences", Arr(<<Str(<<"v", "e", "g">>)>>)),
        Field("allergies", Arr(<<>>))>>)

UserProfiles == {Undefined, Obj(<<>>), Obj(<<Field("age", Num(28))>>), SampleProfile}

SampleSession ==
  Obj(<<Field("today_kcal_consumed", Num(560)),
        Field("today_log",
              Arr(<<Obj(<<Field("name", Str(<<"e", "g", "g">>)),
                          Field("quantity", Str(<<"2">>)),
                          Field("kcal", Num(156))>>)>>)),
        Field("timezone", Str(<<"Asia/Kolkata">>))>>)

SessionStates == {Undefined, Obj(<<>>), SampleSession}

UserMessages == {Str(t) : t \in Texts(MaxLen)}

Flags == {Undefined, Bool(TRUE), Bool(FALSE)}

Languages == {Undefined, Str(<<"H", "i", "n", "d", "i">>)}

Request(userName, userProfile, sessionState, userMessage, requireJSONResponse, language) ==
  [userName |-> userName, userProfile |-> userProfile, sessionState |-> sessionState,
   userMessage |-> userMessage, requireJSONResponse |-> requireJSONResponse,
   language |-> language]

Requests ==
  {Request(n, p, s, m, f, l) :
     n \in UserNames, p \in UserProfiles, s \in SessionStates,
     m \in UserMessages, f \in Flags, l \in Languages}

\* the requests of the specification that compares two calls
PairRequests ==
  {Request(n, p, Undefined, Str(<<"a">>), f, l) :
     n \in UserNames, p \in {Undefined, SampleProfile}, f \in Flags, l \in Languages}

\* ------------------------------------------------------------------------
\* Assistant replies handed to parseAssistantJson
\* ------------------------------------------------------------------------
ParseAlphabet == {"{", "}", "[", "]", "\"", ":", "5", "a", " "}

RECURSIVE TextsOver(_, _)
TextsOver(alphabet, n) ==
  IF n = 0 THEN {<<>>}
  ELSE TextsOver(alphabet, n - 1)
         \cup {Append(t, c) : t \in {u \in TextsOver(alphabet, n - 1) : Len(u) = n - 1},
                              c \in alphabet}

GreetObject ==
  Obj(<<Field("intent", Str(<<"greet">>)),
        Field("fulfillment_text", Str(<<"hi">>)),
        Field("data", Obj(<<>>)),
        Field("follow_up", Obj(<<Field("should_ask", Bool(FALSE)),
                                 Field("questions", Arr(<<>>))>>))>>)

SnapshotObject ==
  Obj(<<Field("intent", Str(<<"get_snapshot">>)),
        Field("data", Obj(<<Field("today_kcal_consumed", Num(500))>>))>>)

\* the replies of the documented examples
GreetText == JSONstringify(GreetObject)

SnapshotText ==
  <<"Sure! ">> \o JSONstringify(SnapshotObject) \o <<" Let me know if you need more.">>

SorryText == <<"Sorry, I cannot help with that.">>

BrokenText == <<"{", "\"", "intent", "\"", ":", " ", "\"", "broken", "\"">>

Leads == {<<>>, <<" ">>, <<"Sure! ">>, <<"[", "a", "]", " ">>, <<"a", " ", "{", " ">>}

Cores ==
  { GreetText,
    JSONstringify(SnapshotObject),
    <<"{", "}">>,
    <<"{", " ", "\"", "a", "\"", " ", ":", " ", "5", " ", "}">>,
    <<"{", "\"", "a", "\"", ":", "\"", "}", "\"", "}">>,
    <<"[", "5", ",", "{", "}", "]">>,
    BrokenText }

Trails ==
  {<<>>, <<"\n">>, <<" Let me know if you need more.">>, <<" ", "}">>, <<" ", "]">>,
   <<" ", "{", "}">>}

AssistantTexts ==
  {Undefined, Null}
    \cup {Str(t) : t \in TextsOver(ParseAlphabet, ParseMaxLen)}
    \cup {Str(l \o c \o t) : l \in Leads, c \in Cores, t \in Trails}
    \cup {Str(SorryText), Str(SnapshotText)}

NoRequest == Request(Undefined, Undefined, Undefined, Undefined, Undefined, Undefined)

\* ------------------------------------------------------------------------
\* Call sites that invoke the two functions without coordination
\* ------------------------------------------------------------------------
CallSites == 1..NumSites

ConcRequests ==
  { Request(Undefined, Undefined, Undefined, Str(<<"a">>), Undefined, Undefined),
    Request(Str(<<"R">>), SampleProfile, SampleSession, Str(<<" ">>), Bool(FALSE),
            Str(<<"Hindi">>)) }

ConcTexts == {Str(<<>>), Str(SnapshotText), Str(<<" ">> \o GreetText), Str(BrokenText)}

\* the locals of an invocation: none while the site is idle
IdleSite ==
  [pc |-> "idle", kind |-> "none", opts |-> NoRequest, text |-> Undefined, i |-> 0,
   trimmed |-> <<>>, built |-> <<>>, got |-> ReturnNull, threw |-> FALSE]

\* the array `const messages` names belongs to the invocation that made it
MessagesSlotShared(p) == 1

MessagesSlot(p) == p

\* the two system messages the array starts with
HeadMessages(opts) ==
  << MessageObject("system", SYSTEM_PROMPT),
     MessageObject("system",
       SessionContext(Default(opts.userName, DefaultUserName),
                      opts.userProfile, opts.sessionState,
                      Default(opts.requireJSONResponse, DefaultRequireJSONResponse),
                      Default(opts.language, DefaultLanguage))) >>

NoSnapshot ==
  [taken |-> FALSE, opts |-> NoRequest, outcome |-> "none", returned |-> <<>>,
   mutated |-> FALSE]

\* ------------------------------------------------------------------------
\* Chat page: values kept in localStorage and in component state
\* ------------------------------------------------------------------------
WELCOME_MESSAGE == <<"${WELCOME_MESSAGE}">>

\* reading a property: undefined unless the value is an object that has it
Get(v, key) ==
  IF v.t = "object" /\ \E i \in 1..Len(v.a) : v.a[i].k = key
    THEN Field("", CHOOSE f \in {v.a[i] : i \in 1..Len(v.a)} : f.k = key)
    ELSE Undefined

\* reading a property of null or undefined raises a TypeError
GetThrows(v) == v.t \in {"null", "undefined"}

\* a || b
OrElse(a, b) == IF Truthy(a) THEN a ELSE b

\* { ...a, ...b }
RECURSIVE SpreadInto(_, _)
SpreadInto(members, more) ==
  IF more = <<>> THEN members
  ELSE SpreadInto(PutMember(members, Head(more).k, Field("", Head(more))), Tail(more))

Spread(a, b) ==
  Obj(SpreadInto(IF a.t = "object" THEN a.a ELSE <<>>, IF b.t = "object" THEN b.a ELSE <<>>))

UIMessage(id, role, text) ==
  Obj(<<Field("id", Str(id)),
        Field("role", Str(<<role>>)),
        Field("parts", Arr(<<Obj(<<Field("type", Str(<<"text">>)),
                                   Field("text", Str(text))>>)>>))>>)

\* `welcome-${Date.now()}`
WelcomeMessage(time) ==
  UIMessage(<<"welcome-">> \o NatToString(time), "assistant", WELCOME_MESSAGE)

StorageData(msgs, durs) == Obj(<<Field("messages", msgs), Field("durations", durs)>>)

EmptyStorageData == StorageData(Arr(<<>>), Obj(<<>>))

\* item is what localStorage.getItem(STORAGE_KEY) answers: null or a string
loadMessagesFromStorage(item) ==
  IF ~Truthy(item) THEN EmptyStorageData
  ELSE LET r == JSONparse(item.s) IN
         IF ~r.ok \/ GetThrows(r.v) THEN EmptyStorageData
         ELSE StorageData(OrElse(Get(r.v, "messages"), Arr(<<>>)),
                          OrElse(Get(r.v, "durations"), Obj(<<>>)))

\* the string saveMessagesToStorage hands to localStorage.setItem
saveMessagesToStorage(msgs, durs) == Str(JSONstringify(StorageData(msgs, durs)))

SavedConversation(id, title, createdAt, msgs) ==
  Obj(<<Field("id", Str(id)), Field("title", Str(title)),
        Field("createdAt", Str(createdAt)), Field("messages", msgs)>>)

loadSavedConversations(item) ==
  IF ~Truthy(item) THEN Arr(<<>>)
  ELSE LET r == JSONparse(item.s) IN IF r.ok THEN r.v ELSE Arr(<<>>)

saveSavedConversations(convs) == Str(JSONstringify(convs))

DefaultProfile ==
  Obj(<<Field("name", Str(<<>>)), Field("age", Str(<<>>)), Field("heightCm", Str(<<>>)),
        Field("weightKg", Str(<<>>)), Field("activity", Str(<<"Moderate">>))>>)

loadProfile(item) ==
  IF ~Truthy(item) THEN DefaultProfile
  ELSE LET r == JSONparse(item.s) IN IF r.ok THEN r.v ELSE DefaultProfile

saveProfile(p) == Str(JSONstringify(p))

\* [conv, ...savedConversations].slice(0, 50)
SavedLimit == 50

SliceFromStartAll(list, n) == list

SliceFromStart(list, n) == SubSeq(list, 1, IF Len(list) < n THEN Len(list) ELSE n)

\* z.string().min(1).max(2000)
MinChars == 1

MaxChars == 2000

formSchemaAccepts(len) == len >= MinChars /\ len <= MaxChars

\* ------------------------------------------------------------------------
\* State
\* ------------------------------------------------------------------------
VARIABLES
  fewShotExamples,  \* the module-level array of example objects
  opts,             \* the argument of the call whose result the caller holds,
                    \* as it was when the call was made
  arg,              \* the argument object as the call left it
  outcome,          \* "none" (no result held), "returned" or "threw"
  returned,         \* the value of the array at the moment the call returned
  messages,         \* the returned array as the caller holds (and changes) it
  mutations,        \* number of changes the caller made to the held array
  snap,             \* an earlier call kept for comparison
  later,            \* the held result comes from a call made after snap
  parseText,        \* the argument of the parseAssistantJson call last made
  parseOutcome,     \* "none" (no call made), "returned" or "threw"
  parsed,           \* the value that call returned (Null stands for absent)
  attempts,         \* the texts that call handed to JSON.parse, in order
  sites,            \* per call site: the invocation in progress and its locals
  frames,           \* per slot: the messages array an invocation is filling
  page,             \* which chat page the browser shows ("none" before the first load)
  phase,            \* "closed", "rendered", "mounted", "welcomed" or "ready"
  localStorage,     \* key -> item (Null when the key is not set)
  stored,           \* what the first render read from localStorage
  initialMessages,  \* useState(stored.messages)
  chatMessages,     \* messages of useChat
  durations,        \* useState: key -> duration
  isClient,         \* useState(false)
  welcomeShown,     \* welcomeMessageShownRef.current
  savedConversations, \* useState, part_001 only
  profile,          \* useState, part_001 only
  status,           \* status of useChat
  draft,            \* the message field of the form
  now,              \* Date.now()
  deletes           \* number of deleteConversation calls so far

buildVars == <<fewShotExamples, opts, arg, outcome, returned, messages, mutations, snap, later>>

parseVars == <<parseText, parseOutcome, parsed, attempts>>

concVars == <<sites, frames>>

componentVars ==
  <<stored, initialMessages, chatMessages, durations, isClient, welcomeShown,
    savedConversations, profile, status, draft>>

pageVars == <<page, phase, localStorage, componentVars, now, deletes>>

vars == <<buildVars, parseVars, concVars, pageVars>>

\* ------------------------------------------------------------------------
\* Chat pages
\* ------------------------------------------------------------------------
Pages == {"prompts.ts", "part_000/1", "part_000/2", "part_001"}

STORAGE_KEY(pg) == IF pg = "part_000/2" THEN "chat-messages-v2" ELSE "chat-messages"

SAVED_CONVS_KEY == "nutribuddy-saved-convs"

PROFILE_KEY == "nutribuddy-profile"

StorageKeys == {"chat-messages", "chat-messages-v2", SAVED_CONVS_KEY, PROFILE_KEY}

\* the page that keeps saved conversations and a profile
HasHistory(pg) == pg = "part_001"

\* a message typed into the form: its length and whether it is only blanks
Draft(len, blank) == [len |-> len, blank |-> blank]

EmptyDraft == Draft(0, TRUE)

Drafts ==
  {EmptyDraft, Draft(MinChars, TRUE), Draft(MaxChars, FALSE), Draft(MaxChars + 1, FALSE)}

\* the component state of a page that is not mounted
Unmounted ==
  <<EmptyStorageData, Arr(<<>>), Arr(<<>>), Obj(<<>>), FALSE, FALSE, Arr(<<>>), Undefined,
    "ready", EmptyDraft>>

\* the state before any call and any page load, with the items ls in storage
InitWith(pg, ls, time) ==
  /\ fewShotExamples = FewShotInit
  /\ opts = NoRequest
  /\ arg = NoRequest
  /\ outcome = "none"
  /\ returned = <<>>
  /\ messages = <<>>
  /\ mutations = 0
  /\ snap = NoSnapshot
  /\ later = FALSE
  /\ parseText = Undefined
  /\ parseOutcome = "none"
  /\ parsed = Null
  /\ attempts = <<>>
  /\ sites = [p \in CallSites |-> IdleSite]
  /\ frames = [p \in CallSites |-> <<>>]
  /\ page = pg
  /\ phase = "closed"
  /\ localStorage = ls
  /\ stored = Unmounted[1]
  /\ initialMessages = Unmounted[2]
  /\ chatMessages = Unmounted[3]
  /\ durations = Unmounted[4]
  /\ isClient = Unmounted[5]
  /\ welcomeShown = Unmounted[6]
  /\ savedConversations = Unmounted[7]
  /\ profile = Unmounted[8]
  /\ status = Unmounted[9]
  /\ draft = Unmounted[10]
  /\ now = time
  /\ deletes = 0

NoItems == [k \in StorageKeys |-> Null]

Init == InitWith("none", NoItems, 1)

\* a caller invokes buildMessages(req) and keeps the result
Call(req) ==
  /\ outcome = "none"
  /\ opts' = req
  /\ arg' = OptsAfterCall(req)
  /\ IF buildMessagesThrows(req)
     THEN /\ outcome' = "threw"
          /\ returned' = <<>>
     ELSE /\ outcome' = "returned"
          /\ returned' = buildMessages(req, fewShotExamples)
  /\ messages' = returned'
  /\ mutations' = 0
  /\ later' = snap.taken
  /\ UNCHANGED <<fewShotExamples, snap, parseVars, concVars, pageVars>>

CallAny == \E req \in Requests : Call(req)

CallPair == \E req \in PairRequests : Call(req)

\* the caller assigns messages[i].content; an assignment to an object shared
\* with the module-level array is seen through that array too
MutateContent ==
  \E i \in 1..Len(messages) :
    /\ outcome = "returned"
    /\ mutations < MaxMutations
    /\ messages' = [messages EXCEPT ![i].content = <<"x">>]
    /\ fewShotExamples' =
         IF messages[i].ref # 0
         THEN [fewShotExamples EXCEPT ![messages[i].ref].content = <<"x">>]
         ELSE fewShotExamples
    /\ mutations' = mutations + 1
    /\ UNCHANGED <<opts, arg, outcome, returned, snap, later, parseVars, concVars, pageVars>>

\* the caller removes the last element of the array it holds
PopMessage ==
  /\ outcome = "returned"
  /\ mutations < MaxMutations
  /\ Len(messages) > 0
  /\ messages' = SubSeq(messages, 1, Len(messages) - 1)
  /\ mutations' = mutations + 1
  /\ UNCHANGED <<fewShotExamples, opts, arg, outcome, returned, snap, later, parseVars, concVars, pageVars>>

\* the caller keeps a copy of what the call took and returned
Remember ==
  /\ outcome # "none"
  /\ ~snap.taken
  /\ snap' = [taken |-> TRUE, opts |-> opts, outcome |-> outcome,
              returned |-> returned, mutated |-> mutations > 0]
  /\ later' = FALSE
  /\ UNCHANGED <<fewShotExamples, opts, arg, outcome, returned, messages, mutations, parseVars, concVars, pageVars>>

\* the caller drops the result
Discard ==
  /\ outcome # "none"
  /\ opts' = NoRequest
  /\ arg' = NoRequest
  /\ outcome' = "none"
  /\ returned' = <<>>
  /\ messages' = <<>>
  /\ mutations' = 0
  /\ later' = FALSE
  /\ UNCHANGED <<fewShotExamples, snap, parseVars, concVars, pageVars>>

Next == CallAny \/ MutateContent \/ PopMessage \/ Discard

Spec == Init /\ [][Next]_vars

NextPair == CallPair \/ MutateContent \/ PopMessage \/ Remember \/ Discard

SpecPair == Init /\ [][NextPair]_vars

\* a caller invokes parseAssistantJson(t) and keeps the result
Parse(t) ==
  /\ parseOutcome = "none"
  /\ parseText' = t
  /\ LET r == parseAssistantJson(t) IN
       /\ parseOutcome' = IF r.threw THEN "threw" ELSE "returned"
       /\ parsed' = r.value
       /\ attempts' = r.attempts
  /\ UNCHANGED <<buildVars, concVars, pageVars>>

ParseAny == \E t \in AssistantTexts : Parse(t)

\* the caller drops the parsed value
DropParsed ==
  /\ parseOutcome # "none"
  /\ parseText' = Undefined
  /\ parseOutcome' = "none"
  /\ parsed' = Null
  /\ attempts' = <<>>
  /\ UNCHANGED <<buildVars, concVars, pageVars>>

NextParse == ParseAny \/ DropParsed

SpecParse == Init /\ [][NextParse]_vars

\* ------------------------------------------------------------------------
\* Invocations in progress at several call sites, one statement group at a
\* time
\* ------------------------------------------------------------------------
\* an invocation at site p enters buildMessages(req): destructuring and the
\* two blocks
BuildEnter(p, req) ==
  /\ sites[p].pc = "idle"
  /\ sites' = [sites EXCEPT ![p] =
       IF buildMessagesThrows(req)
         THEN [IdleSite EXCEPT !.pc = "done", !.kind = "build", !.opts = req, !.threw = TRUE]
         ELSE [IdleSite EXCEPT !.pc = "head", !.kind = "build", !.opts = req]]
  /\ UNCHANGED <<frames, buildVars, parseVars, pageVars>>

\* const messages = [system prompt, session context]
BuildHead(p) ==
  /\ sites[p].pc = "head"
  /\ frames' = [frames EXCEPT ![MessagesSlot(p)] = HeadMessages(sites[p].opts)]
  /\ sites' = [sites EXCEPT ![p].pc = "examples", ![p].i = 1]
  /\ UNCHANGED <<buildVars, parseVars, pageVars>>

\* one iteration of the loop over fewShotExamples
BuildPush(p) ==
  /\ sites[p].pc = "examples"
  /\ LET i == sites[p].i IN
       IF i <= Len(fewShotExamples)
         THEN /\ frames' = [frames EXCEPT ![MessagesSlot(p)] =
                             Append(@, PushExample(fewShotExamples[i], i))]
              /\ sites' = [sites EXCEPT ![p].i = i + 1]
         ELSE /\ sites' = [sites EXCEPT ![p].pc = "user"]
              /\ UNCHANGED frames
  /\ UNCHANGED <<buildVars, parseVars, pageVars>>

\* messages.push({ role: 'user', content: userMessage })
BuildUser(p) ==
  /\ sites[p].pc = "user"
  /\ frames' = [frames EXCEPT ![MessagesSlot(p)] =
                  Append(@, LiveUserMessage(sites[p].opts.userMessage))]
  /\ sites' = [sites EXCEPT ![p].pc = "return"]
  /\ UNCHANGED <<buildVars, parseVars, pageVars>>

\* return messages
BuildReturn(p) ==
  /\ sites[p].pc = "return"
  /\ sites' = [sites EXCEPT ![p].pc = "done", ![p].built = frames[MessagesSlot(p)]]
  /\ frames' = [frames EXCEPT ![MessagesSlot(p)] = <<>>]
  /\ UNCHANGED <<buildVars, parseVars, pageVars>>

\* an invocation at site p enters parseAssistantJson(t): the falsy check and
\* the trim
ParseEnter(p, t) ==
  /\ sites[p].pc = "idle"
  /\ sites' = [sites EXCEPT ![p] =
       IF ~Truthy(t)
         THEN [IdleSite EXCEPT !.pc = "done", !.kind = "parse", !.text = t, !.got = ReturnNull]
         ELSE [IdleSite EXCEPT !.pc = "try", !.kind = "parse", !.text = t,
                               !.trimmed = Trim(t.s)]]
  /\ UNCHANGED <<frames, buildVars, parseVars, pageVars>>

\* the try block and the final return
ParseTry(p) ==
  /\ sites[p].pc = "try"
  /\ LET trimmed == sites[p].trimmed IN
       sites' = [sites EXCEPT ![p].pc = "done",
                              ![p].got = IF StartsStructured(trimmed)
                                           THEN WholeText(trimmed)
                                           ELSE SubstringStep(trimmed)]
  /\ UNCHANGED <<frames, buildVars, parseVars, pageVars>>

\* the caller at site p is done with the result
Release(p) ==
  /\ sites[p].pc = "done"
  /\ sites' = [sites EXCEPT ![p] = IdleSite]
  /\ UNCHANGED <<frames, buildVars, parseVars, pageVars>>

BuildEnterAny == \E p \in CallSites, req \in ConcRequests : BuildEnter(p, req)

BuildHeadAny == \E p \in CallSites : BuildHead(p)

BuildPushAny == \E p \in CallSites : BuildPush(p)

BuildUserAny == \E p \in CallSites : BuildUser(p)

BuildReturnAny == \E p \in CallSites : BuildReturn(p)

ParseEnterAny == \E p \in CallSites, t \in ConcTexts : ParseEnter(p, t)

ParseTryAny == \E p \in CallSites : ParseTry(p)

ReleaseAny == \E p \in CallSites : Release(p)

NextConc ==
  \/ BuildEnterAny
  \/ BuildHeadAny
  \/ BuildPushAny
  \/ BuildUserAny
  \/ BuildReturnAny
  \/ ParseEnterAny
  \/ ParseTryAny
  \/ ReleaseAny

SpecConc == Init /\ [][NextConc]_vars

\* ------------------------------------------------------------------------
\* A chat page in the browser: load, effects, and what the user does
\* ------------------------------------------------------------------------
otherVars == <<buildVars, parseVars, concVars>>

\* the two older pages start durations at {}, the newer two at what was stored
InitialDurations(pg, st) ==
  IF pg \in {"prompts.ts", "part_000/1"} THEN Obj(<<>>) ELSE Get(st, "durations")

\* the input is disabled while streaming on the two older pages only
InputDisabled(pg, st) == pg \in {"prompts.ts", "part_000/1"} /\ st = "streaming"

\* the send button is rendered only when no request is pending
SendButtonShown(st) == st \in {"ready", "error"}

\* disabled={!field.value.trim()}, which part_000/2 leaves out
SendButtonDisabled(pg, d) == pg # "part_000/2" /\ d.blank

\* initialMessages.length === 0
LengthIsZero(v) == v.t = "array" /\ v.a = <<>>

\* the effect that persists messages and durations
Persisted(ls, pg, msgs, durs) ==
  [ls EXCEPT ![STORAGE_KEY(pg)] = saveMessagesToStorage(msgs, durs)]

\* the render reads profile.name: a stored profile of null makes it throw
RenderThrows(pg, ls) == HasHistory(pg) /\ GetThrows(loadProfile(ls[PROFILE_KEY]))

\* first render on the client
PageLoad(pg) ==
  /\ phase = "closed"
  /\ page \in {"none", pg}
  /\ ~RenderThrows(pg, localStorage)
  /\ page' = pg
  /\ phase' = "rendered"
  /\ LET st == loadMessagesFromStorage(localStorage[STORAGE_KEY(pg)]) IN
       /\ stored' = st
       /\ initialMessages' = Get(st, "messages")
       /\ chatMessages' = Get(st, "messages")
       /\ durations' = InitialDurations(pg, st)
  /\ isClient' = FALSE
  /\ welcomeShown' = FALSE
  /\ savedConversations' =
       IF HasHistory(pg) THEN loadSavedConversations(localStorage[SAVED_CONVS_KEY])
       ELSE Arr(<<>>)
  /\ profile' = IF HasHistory(pg) THEN loadProfile(localStorage[PROFILE_KEY]) ELSE Undefined
  /\ status' = "ready"
  /\ draft' = EmptyDraft
  /\ UNCHANGED <<localStorage, now, deletes, otherVars>>

MountEffectsPersisting ==
  /\ phase = "rendered"
  /\ phase' = "mounted"
  /\ isClient' = TRUE
  /\ durations' = Get(stored, "durations")
  /\ chatMessages' = Get(stored, "messages")
  /\ localStorage' = Persisted(localStorage, page, chatMessages, durations)
  /\ UNCHANGED <<page, stored, initialMessages, welcomeShown, savedConversations, profile,
                 status, draft, now, deletes, otherVars>>

\* the effects of the first commit: isClient is still false in the closures
\* of the persist and welcome effects, so only the wiring effect acts
MountEffects ==
  /\ phase = "rendered"
  /\ phase' = "mounted"
  /\ isClient' = TRUE
  /\ durations' = Get(stored, "durations")
  /\ chatMessages' = Get(stored, "messages")
  /\ savedConversations' =
       IF HasHistory(page) THEN loadSavedConversations(localStorage[SAVED_CONVS_KEY])
       ELSE savedConversations
  /\ profile' = IF HasHistory(page) THEN loadProfile(localStorage[PROFILE_KEY]) ELSE profile
  /\ UNCHANGED <<page, localStorage, stored, initialMessages, welcomeShown, status, draft,
                 now, deletes, otherVars>>

WelcomeDueAlways(initial, shown) == ~shown

\* initialMessages.length === 0 && !welcomeMessageShownRef.current
WelcomeDue(initial, shown) == LengthIsZero(initial) /\ ~shown

\* the effects of the commit that follows: persist, then welcome
ClientEffects ==
  /\ phase = "mounted"
  /\ LET saved == Persisted(localStorage, page, chatMessages, durations)
         welcome == Arr(<<WelcomeMessage(now)>>)
     IN  IF isClient /\ WelcomeDue(initialMessages, welcomeShown)
           THEN /\ chatMessages' = welcome
                /\ localStorage' = Persisted(saved, page, welcome, Obj(<<>>))
                /\ welcomeShown' = TRUE
                /\ phase' = "welcomed"
           ELSE /\ localStorage' = saved
                /\ phase' = "ready"
                /\ UNCHANGED <<chatMessages, welcomeShown>>
  /\ UNCHANGED <<page, stored, initialMessages, durations, isClient, savedConversations,
                 profile, status, draft, now, deletes, otherVars>>

\* the persist effect runs again because messages changed
PersistEffect ==
  /\ phase = "welcomed"
  /\ phase' = "ready"
  /\ localStorage' = Persisted(localStorage, page, chatMessages, durations)
  /\ UNCHANGED <<page, componentVars, now, deletes, otherVars>>

\* the user edits the message field
TypeDraft(d) ==
  /\ phase = "ready"
  /\ ~InputDisabled(page, status)
  /\ draft # d
  /\ draft' = d
  /\ UNCHANGED <<page, phase, localStorage, stored, initialMessages, chatMessages, durations,
                 isClient, welcomeShown, savedConversations, profile, status, now, deletes, otherVars>>

\* form.handleSubmit(onSubmit): validation, sendMessage, form.reset, and the
\* persist effect for the message useChat appends
HandleSubmit ==
  IF formSchemaAccepts(draft.len)
    THEN /\ chatMessages' =
              Arr(Append(chatMessages.a,
                         UIMessage(<<"msg-">> \o NatToString(Len(chatMessages.a) + 1), "user",
                                   <<"hello">>)))
         /\ status' = "submitted"
         /\ draft' = EmptyDraft
         /\ localStorage' = Persisted(localStorage, page, chatMessages', durations)
    ELSE UNCHANGED <<chatMessages, status, draft, localStorage>>

\* the user clicks the send button
ClickSend ==
  /\ phase = "ready"
  /\ SendButtonShown(status)
  /\ ~SendButtonDisabled(page, draft)
  /\ Len(chatMessages.a) < MaxMessages
  /\ HandleSubmit
  /\ UNCHANGED <<page, phase, stored, initialMessages, durations, isClient, welcomeShown,
                 savedConversations, profile, now, deletes, otherVars>>

\* the user presses Enter in the message field
PressEnter ==
  /\ phase = "ready"
  /\ ~InputDisabled(page, status)
  /\ Len(chatMessages.a) < MaxMessages
  /\ HandleSubmit
  /\ UNCHANGED <<page, phase, stored, initialMessages, durations, isClient, welcomeShown,
                 savedConversations, profile, now, deletes, otherVars>>

\* useChat receives the start of the reply
StreamStart ==
  /\ phase = "ready"
  /\ status = "submitted"
  /\ status' = "streaming"
  /\ chatMessages' =
       Arr(Append(chatMessages.a,
                  UIMessage(<<"msg-">> \o NatToString(Len(chatMessages.a) + 1), "assistant",
                            <<"reply">>)))
  /\ localStorage' = Persisted(localStorage, page, chatMessages', durations)
  /\ UNCHANGED <<page, phase, stored, initialMessages, durations, isClient, welcomeShown,
                 savedConversations, profile, draft, now, deletes, otherVars>>

\* the reply is complete, or the user clicks stop
StreamEnd ==
  /\ phase = "ready"
  /\ status \in {"submitted", "streaming"}
  /\ status' = "ready"
  /\ UNCHANGED <<page, phase, localStorage, stored, initialMessages, chatMessages, durations,
                 isClient, welcomeShown, savedConversations, profile, draft, now, deletes, otherVars>>

\* the request fails
StreamError ==
  /\ phase = "ready"
  /\ status \in {"submitted", "streaming"}
  /\ status' = "error"
  /\ UNCHANGED <<page, phase, localStorage, stored, initialMessages, chatMessages, durations,
                 isClient, welcomeShown, savedConversations, profile, draft, now, deletes, otherVars>>

DurationKeys == {"a"}

DurationValues == {1}

\* handleDurationChange(key, duration) and the persist effect
DurationChange(key, d) ==
  /\ phase = "ready"
  /\ Get(durations, key) # Num(d)
  /\ durations' = Obj(PutMember(durations.a, key, Num(d)))
  /\ localStorage' = Persisted(localStorage, page, chatMessages, durations')
  /\ UNCHANGED <<page, phase, stored, initialMessages, chatMessages, isClient, welcomeShown,
                 savedConversations, profile, status, draft, now, deletes, otherVars>>

\* clearChat and the persist effect
ClearChatKeepDurations ==
  /\ phase = "ready"
  /\ chatMessages' = Arr(<<>>)
  /\ localStorage' = Persisted(localStorage, page, Arr(<<>>), durations)
  /\ UNCHANGED durations

ClearChatBody ==
  /\ phase = "ready"
  /\ chatMessages' = Arr(<<>>)
  /\ durations' = Obj(<<>>)
  /\ localStorage' =
       Persisted(Persisted(localStorage, page, Arr(<<>>), Obj(<<>>)), page,
                 chatMessages', durations')

clearChat ==
  /\ ClearChatBody
  /\ UNCHANGED <<page, phase, stored, initialMessages, isClient, welcomeShown,
                 savedConversations, profile, status, draft, now, deletes, otherVars>>

\* the tab is closed or reloaded: component state is gone, localStorage stays
Reload ==
  /\ phase # "closed"
  /\ phase' = "closed"
  /\ stored' = Unmounted[1]
  /\ initialMessages' = Unmounted[2]
  /\ chatMessages' = Unmounted[3]
  /\ durations' = Unmounted[4]
  /\ isClient' = Unmounted[5]
  /\ welcomeShown' = Unmounted[6]
  /\ savedConversations' = Unmounted[7]
  /\ profile' = Unmounted[8]
  /\ status' = Unmounted[9]
  /\ draft' = Unmounted[10]
  /\ UNCHANGED <<page, localStorage, now, deletes, otherVars>>

Garbage == Str(<<"{", "\"", "messages", "\"", ":", "[">>)

ForeignItems == {Garbage, Str(<<"null">>), Str(<<"{", "}">>)}

\* something else leaves an item under one of the page's keys while the page
\* is closed
ForeignWrite(key, item) ==
  /\ phase = "closed"
  /\ page # "none"
  /\ key \in {STORAGE_KEY(page)} \cup (IF HasHistory(page) THEN {PROFILE_KEY} ELSE {})
  /\ localStorage[key] # item
  /\ localStorage' = [localStorage EXCEPT ![key] = item]
  /\ UNCHANGED <<page, phase, componentVars, now, deletes, otherVars>>

Titles == {Null, Str(<<>>), Str(<<"plan">>)}

\* saveCurrentConversation: window.prompt answers title (null when cancelled);
\* time passes while the prompt is open
saveCurrentConversation(title, cap) ==
  /\ phase = "ready"
  /\ HasHistory(page)
  /\ now <= cap
  /\ IF ~Truthy(title)
       THEN UNCHANGED <<now, savedConversations, localStorage>>
       ELSE /\ now' = now + 1
            /\ LET conv == SavedConversation(<<"conv-">> \o NatToString(now'), title.s,
                                             <<"iso-">> \o NatToString(now'), chatMessages)
                   next == Arr(SliceFromStart(<<conv>> \o savedConversations.a, SavedLimit))
               IN  /\ savedConversations' = next
                   /\ localStorage' =
                        [localStorage EXCEPT ![SAVED_CONVS_KEY] = saveSavedConversations(next)]
  /\ UNCHANGED <<page, phase, stored, initialMessages, chatMessages, durations, isClient,
                 welcomeShown, profile, status, draft, deletes, otherVars>>

\* loadConversation(conv) for the i-th entry shown, and the persist effect
loadConversation(i) ==
  /\ phase = "ready"
  /\ HasHistory(page)
  /\ i \in 1..Len(savedConversations.a)
  /\ LET conv == savedConversations.a[i] IN
       /\ chatMessages' = Get(conv, "messages")
       /\ localStorage' =
            Persisted(Persisted(localStorage, page, Get(conv, "messages"), durations),
                      page, chatMessages', durations)
  /\ UNCHANGED <<page, phase, stored, initialMessages, durations, isClient, welcomeShown,
                 savedConversations, profile, status, draft, now, deletes,
                 otherVars>>

\* savedConversations.filter((c) => c.id !== convId)
Without(list, convId) == SelectSeq(list, LAMBDA c : Get(c, "id") # convId)

\* deleteConversation(c.id) for the i-th entry shown
deleteConversation(i) ==
  /\ phase = "ready"
  /\ HasHistory(page)
  /\ deletes < MaxDeletes
  /\ i \in 1..Len(savedConversations.a)
  /\ deletes' = deletes + 1
  /\ LET next == Arr(Without(savedConversations.a, Get(savedConversations.a[i], "id"))) IN
       /\ savedConversations' = next
       /\ localStorage' =
            [localStorage EXCEPT ![SAVED_CONVS_KEY] = saveSavedConversations(next)]
  /\ UNCHANGED <<page, phase, stored, initialMessages, chatMessages, durations, isClient,
                 welcomeShown, profile, status, draft, now, otherVars>>

ProfileUpdates ==
  { Obj(<<Field("name", Str(<<"R">>))>>),
    Obj(<<Field("age", Str(<<"2", "8">>))>>),
    Obj(<<Field("activity", Str(<<"Active">>))>>) }

\* { ...profile, ...updates }
MergeProfileReplacing(p, updates) == updates

MergeProfile(p, updates) == Spread(p, updates)

updateProfile(updates) ==
  /\ phase = "ready"
  /\ HasHistory(page)
  /\ LET next == MergeProfile(profile, updates) IN
       /\ profile' = next
       /\ localStorage' = [localStorage EXCEPT ![PROFILE_KEY] = saveProfile(next)]
  /\ UNCHANGED <<page, phase, stored, initialMessages, chatMessages, durations, isClient,
                 welcomeShown, savedConversations, status, draft, now, deletes,
                 otherVars>>

NextChat ==
  \/ \E pg \in Pages : PageLoad(pg)
  \/ MountEffects
  \/ ClientEffects
  \/ PersistEffect
  \/ \E d \in Drafts : TypeDraft(d)
  \/ ClickSend
  \/ PressEnter
  \/ StreamStart
  \/ StreamEnd
  \/ StreamError
  \/ \E key \in DurationKeys, d \in DurationValues : DurationChange(key, d)
  \/ clearChat
  \/ Reload
  \/ \E item \in ForeignItems : ForeignWrite(STORAGE_KEY(page), item)

SpecChat == Init /\ [][NextChat]_vars

\* the entries the user picks from the list: the first two and the last
Picks(list) == {i \in 1..Len(list) : i <= 2 \/ i = Len(list)}

NextFill ==
  \/ PageLoad("part_001")
  \/ MountEffects
  \/ ClientEffects
  \/ PersistEffect
  \/ \E title \in Titles : saveCurrentConversation(title, MaxSaves)
  \/ \E i \in Picks(savedConversations.a) : loadConversation(i)
  \/ \E i \in Picks(savedConversations.a) : deleteConversation(i)
  \/ Reload

SpecFill == Init /\ [][NextFill]_vars

\* the list that SavedLimit - 1 saves of the first welcome transcript leave
FilledList ==
  [i \in 1..(SavedLimit - 1) |->
     SavedConversation(<<"conv-">> \o NatToString(SavedLimit + 1 - i), <<"plan">>,
                       <<"iso-">> \o NatToString(SavedLimit + 1 - i),
                       Arr(<<WelcomeMessage(1)>>))]

FilledItems ==
  [NoItems EXCEPT ![STORAGE_KEY("part_001")] =
                    saveMessagesToStorage(Arr(<<WelcomeMessage(1)>>), Obj(<<>>)),
                  ![SAVED_CONVS_KEY] = saveSavedConversations(Arr(FilledList))]

\* part_001 was closed after SavedLimit - 1 saves
InitSaved == InitWith("part_001", FilledItems, SavedLimit)

NextSaved ==
  \/ PageLoad("part_001")
  \/ MountEffects
  \/ ClientEffects
  \/ \E title \in Titles : saveCurrentConversation(title, SavedLimit + MaxChatSaves)
  \/ \E i \in Picks(savedConversations.a) : loadConversation(i)
  \/ \E i \in Picks(savedConversations.a) : deleteConversation(i)
  \/ \E key \in DurationKeys, d \in DurationValues : DurationChange(key, d)
  \/ clearChat

SpecSaved == InitSaved /\ [][NextSaved]_vars

NextStorage ==
  \/ \E pg \in Pages : PageLoad(pg)
  \/ MountEffects
  \/ ClientEffects
  \/ PersistEffect
  \/ \E updates \in ProfileUpdates : updateProfile(updates)
  \/ \E title \in Titles : saveCurrentConversation(title, MaxChatSaves)
  \/ \E i \in Picks(savedConversations.a) : loadConversation(i)
  \/ \E key \in DurationKeys, d \in DurationValues : DurationChange(key, d)
  \/ clearChat
  \/ Reload
  \/ \E key \in StorageKeys, item \in ForeignItems : ForeignWrite(key, item)

SpecStorage == Init /\ [][NextStorage]_vars

\* ------------------------------------------------------------------------
\* Properties of buildMessages
\* ------------------------------------------------------------------------
FewShotCount == 6

\* text predicates the properties are stated with
EndsWith(str, suf) ==
  /\ Len(suf) <= Len(str)
  /\ SubSeq(str, Len(str) - Len(suf) + 1, Len(str)) = suf

Includes(str, sub) ==
  \E i \in 0..(Len(str) - Len(sub)) : SubSeq(str, i + 1, i + Len(sub)) = sub

Roles(msgs) == [i \in 1..Len(msgs) |-> msgs[i].role]

Plain(msgs) == [i \in 1..Len(msgs) |-> [role |-> msgs[i].role, content |-> msgs[i].content]]

Called == outcome # "none"

\* the text the request configures for the name and the language
NameText == IF opts.userName = Undefined THEN <<"User">> ELSE opts.userName.s

LanguageText == IF opts.language = Undefined THEN <<"English">> ELSE opts.language.s

ContextHead == <<"Context for this session:", "\n", "User display name: ">> \o NameText \o <<".", "\n">>

LanguageLine == <<"\n", "Assistant response language: ">> \o LanguageText \o <<".">>

StrictTail ==
  LanguageLine \o <<"\n", "\n",
    "IMPORTANT: Respond with ONLY valid JSON using the schema in the system prompt. Do NOT include any extra explanatory text.">>

PermissiveTail ==
  LanguageLine \o <<"\n", "\n", "You may respond in natural ">> \o LanguageText
    \o <<" text. If helpful, include a short JSON payload labeled \"assistant_payload\".">>

\* C1: every call returns 2 + 6 + 1 messages: the system message holding
\* SYSTEM_PROMPT, the system message holding the session context, the six
\* few-shot turns in their fixed order, and the user message holding the live
\* utterance; the length and the roles are the same for every request.
C1_Shape ==
  Called =>
    /\ outcome = "returned"
    /\ Len(returned) = 2 + FewShotCount + 1
    /\ Roles(returned) = <<"system", "system", "user", "assistant", "user",
                           "assistant", "user", "assistant", "user">>
    /\ returned[1].content = SYSTEM_PROMPT
    /\ StartsWith(returned[2].content, <<"Context for this session:", "\n">>)
    /\ \A i \in 1..FewShotCount :
         /\ returned[2 + i].role = FewShotInit[i].role
         /\ returned[2 + i].content = FewShotInit[i].content
    /\ returned[Len(returned)].content = opts.userMessage.s

C1_Witness ==
  /\ outcome = "returned"
  /\ opts.userProfile = SampleProfile
  /\ opts.sessionState = SampleSession
  /\ opts.requireJSONResponse = Bool(FALSE)
  /\ Len(returned) = 9

\* C2: the first message has role system, the last has role user and its
\* content is the utterance exactly as given, leading and trailing blanks
\* included.
C2_UtteranceVerbatim ==
  Called =>
    /\ returned # <<>>
    /\ returned[1].role = "system"
    /\ returned[Len(returned)].role = "user"
    /\ returned[Len(returned)].content = opts.userMessage.s

C2_Witness ==
  /\ outcome = "returned"
  /\ opts.userMessage.s = <<" ", "a">>
  /\ returned[Len(returned)].content = <<" ", "a">>

\* C3: the session-context message ends, right after the language line, with
\* the strict directive when requireJSONResponse is true and with the
\* permissive directive when it is false; exactly one of the two ends it.
C3_DirectiveByFlag ==
  Called =>
    LET c == returned[2].content IN
      /\ opts.requireJSONResponse = Bool(TRUE) => EndsWith(c, StrictTail)
      /\ opts.requireJSONResponse = Bool(FALSE) => EndsWith(c, PermissiveTail)
      /\ EndsWith(c, StrictTail) # EndsWith(c, PermissiveTail)

C3_Witness ==
  /\ outcome = "returned"
  /\ opts.requireJSONResponse = Bool(FALSE)
  /\ EndsWith(returned[2].content, PermissiveTail)
  /\ ~EndsWith(returned[2].content, StrictTail)

\* C4: with requireJSONResponse = false the session-context message contains
\* the configured language both in its language line and in the permissive
\* directive.
C4_LanguageShown ==
  (Called /\ opts.requireJSONResponse = Bool(FALSE)) =>
    LET c == returned[2].content IN
      /\ Includes(c, <<"Assistant response language: ">> \o LanguageText \o <<".">>)
      /\ Includes(c, <<"You may respond in natural ">> \o LanguageText \o <<" text. If helpful, include a short JSON payload labeled \"assistant_payload\".">>)

C4_Witness ==
  /\ outcome = "returned"
  /\ opts.requireJSONResponse = Bool(FALSE)
  /\ opts.language = Str(<<"H", "i", "n", "d", "i">>)
  /\ Includes(returned[2].content, <<"You may respond in natural ", "H", "i", "n", "d", "i">>)

BlocksNonEmpty(c) ==
  \E tail \in {StrictTail, PermissiveTail} :
    /\ StartsWith(c, ContextHead)
    /\ EndsWith(c, tail)
    /\ \E i \in (Len(ContextHead) + 1)..(Len(c) - Len(tail)) :
         /\ c[i] = "\n"
         /\ LET pb == SubSeq(c, Len(ContextHead) + 1, i - 1)
                sb == SubSeq(c, i + 1, Len(c) - Len(tail))
            IN  /\ StartsWith(pb, <<"User profile: ">>)
                /\ Len(pb) > 1
                /\ StartsWith(sb, <<"Session state: ">>)
                /\ Len(sb) > 1

\* C6: an absent userProfile (sessionState) puts the placeholder 'User
\* profile: Not provided.' ('Session state: Not provided.') in the
\* session-context message, and neither block is ever empty.
C6_Placeholder ==
  Called =>
    LET c == returned[2].content IN
      /\ opts.userProfile = Undefined =>
           StartsWith(c, ContextHead \o <<"User profile: ", "Not provided", ".", "\n">>)
      /\ opts.sessionState = Undefined =>
           Includes(c, <<"\n", "Session state: ", "Not provided", ".", "\n">>)
      /\ BlocksNonEmpty(c)

C6_Witness ==
  /\ outcome = "returned"
  /\ opts.userProfile = Undefined
  /\ opts.sessionState = Undefined
  /\ Includes(returned[2].content, <<"User profile: ", "Not provided", ".">>)
  /\ Includes(returned[2].content, <<"Session state: ", "Not provided", ".">>)

ProfileLine(c) == ContextHead \o <<"User profile: ">> \o JSONstringify(opts.userProfile) \o <<".", "\n">>

SessionLine(c) == <<"\n", "Session state: ">> \o JSONstringify(opts.sessionState) \o <<".", "\n">>

ProfilePlaceholderUsed(c) ==
  StartsWith(c, ContextHead \o <<"User profile: ", "Not provided", ".", "\n">>)

SessionPlaceholderUsed(c) ==
  Includes(c, <<"\n", "Session state: ", "Not provided", ".", "\n", "Assistant response language: ">>)

\* C7 as stated: a present userProfile (sessionState), whatever its fields, is
\* serialized into its block, and the placeholder is used only for an absent
\* record.
C7_Original ==
  Called =>
    LET c == returned[2].content IN
      /\ opts.userProfile # Undefined => StartsWith(c, ProfileLine(c)) /\ ~ProfilePlaceholderUsed(c)
      /\ opts.sessionState # Undefined => Includes(c, SessionLine(c)) /\ ~SessionPlaceholderUsed(c)

\* C7 as amended: a userProfile (sessionState) that is present and has at
\* least one own key is serialized with JSON.stringify into its block; the
\* placeholder is used exactly when the record is absent or has no keys.
C7_Amended ==
  Called =>
    LET c == returned[2].content IN
      /\ (opts.userProfile # Undefined /\ Len(opts.userProfile.a) > 0)
           => StartsWith(c, ProfileLine(c)) /\ ~ProfilePlaceholderUsed(c)
      /\ (opts.userProfile = Undefined \/ Len(opts.userProfile.a) = 0)
           => ProfilePlaceholderUsed(c)
      /\ (opts.sessionState # Undefined /\ Len(opts.sessionState.a) > 0)
           => Includes(c, SessionLine(c)) /\ ~SessionPlaceholderUsed(c)
      /\ (opts.sessionState = Undefined \/ Len(opts.sessionState.a) = 0)
           => SessionPlaceholderUsed(c)
      /\ opts.userProfile = Obj(<<Field("age", Num(28))>>)
           => StartsWith(c, ContextHead \o <<"User profile: ", "{", "\"", "age", "\"", ":", "2", "8", "}", ".", "\n">>)

C7_Witness ==
  /\ outcome = "returned"
  /\ opts.userProfile = SampleProfile
  /\ opts.sessionState = SampleSession
  /\ Includes(returned[2].content,
              <<"User profile: ", "{", "\"", "name", "\"", ":", "\"", "R", "\\", "\"", "i", "\"", ",">>)
  /\ Includes(returned[2].content, <<"Session state: ", "{", "\"", "today_kcal_consumed", "\"", ":", "5", "6", "0">>)

IsBlank(text) == \A i \in 1..Len(text) : IsWhitespace(text[i])

\* C8 as stated: a call whose userMessage is empty or only whitespace fails
\* with InvalidRequest and returns no message sequence.
C8_Original ==
  (Called /\ IsBlank(opts.userMessage.s)) => (outcome = "threw" /\ returned = <<>>)

\* C8 as amended: buildMessages does not validate userMessage; a call whose
\* userMessage is empty or only whitespace returns the usual nine messages,
\* the last one a user message with that userMessage unchanged.
C8_Amended ==
  (Called /\ IsBlank(opts.userMessage.s)) =>
    /\ outcome = "returned"
    /\ Len(returned) = 2 + FewShotCount + 1
    /\ returned[Len(returned)].role = "user"
    /\ returned[Len(returned)].content = opts.userMessage.s

C8_Witness ==
  /\ outcome = "returned"
  /\ opts.userMessage.s = <<" ", " ">>
  /\ returned[Len(returned)].content = <<" ", " ">>

\* C9: every call returns; what it returns is a non-empty sequence of
\* messages, each with a role among system, user and assistant and a text.
C9_Total ==
  Called =>
    /\ outcome = "returned"
    /\ returned # <<>>
    /\ \A i \in 1..Len(returned) :
         /\ returned[i].role \in {"system", "user", "assistant"}
         /\ returned[i].content \in Seq(STRING)

C9_Witness ==
  /\ outcome = "returned"
  /\ opts.userName = Undefined
  /\ opts.userProfile = Undefined
  /\ opts.sessionState = Undefined
  /\ opts.requireJSONResponse = Undefined
  /\ opts.language = Undefined
  /\ opts.userMessage.s = <<>>

\* C10: an absent userName reads as 'User', an absent language as 'English',
\* and a call with requireJSONResponse absent returns what the call with
\* requireJSONResponse = true and the same other fields returned.
C10_Defaults ==
  Called =>
    LET c == returned[2].content IN
      /\ opts.userName = Undefined =>
           StartsWith(c, <<"Context for this session:", "\n", "User display name: ", "User", ".", "\n">>)
      /\ opts.language = Undefined =>
           Includes(c, <<"\n", "Assistant response language: ", "English", ".", "\n">>)
      /\ (/\ snap.taken
          /\ later
          /\ opts.requireJSONResponse = Undefined
          /\ snap.opts = [opts EXCEPT !.requireJSONResponse = Bool(TRUE)])
           => Plain(returned) = Plain(snap.returned)

C10_Witness ==
  /\ outcome = "returned"
  /\ snap.taken
  /\ later
  /\ opts.userName = Undefined
  /\ opts.language = Undefined
  /\ opts.requireJSONResponse = Undefined
  /\ snap.opts = [opts EXCEPT !.requireJSONResponse = Bool(TRUE)]
  /\ Plain(returned) = Plain(snap.returned)

\* C11: elements 3..8 of every result are the six example messages of the
\* module as written in the source, in their order, also in a call made after
\* callers changed arrays or message objects of earlier results; they are the
\* same six as in any earlier result, whatever the two requests were.
C11_FewShotConstant ==
  outcome = "returned" =>
    /\ SubSeq(Plain(returned), 3, 2 + FewShotCount) = FewShotInit
    /\ (snap.taken /\ snap.outcome = "returned") =>
         SubSeq(Plain(returned), 3, 2 + FewShotCount)
           = SubSeq(Plain(snap.returned), 3, 2 + FewShotCount)

C11_Witness ==
  /\ outcome = "returned"
  /\ snap.taken
  /\ snap.mutated
  /\ later
  /\ opts # snap.opts
  /\ SubSeq(Plain(returned), 3, 8) = FewShotInit

\* C12: a call leaves its argument as it was (userProfile, sessionState and
\* the today_log list in it included), leaves the module-level example array
\* as it was, and returns message objects none of which is an object of the
\* module-level array.
C12_NoSideEffects ==
  /\ fewShotExamples = FewShotInit
  /\ Called =>
       /\ arg = opts
       /\ \A i \in 1..Len(returned) : returned[i].ref = 0

C12_Witness ==
  /\ outcome = "returned"
  /\ opts.userName = Undefined
  /\ opts.language = Undefined
  /\ opts.sessionState = SampleSession
  /\ arg.sessionState = SampleSession
  /\ arg.userName = Undefined
  /\ mutations > 0

\* ------------------------------------------------------------------------
\* parseAssistantJson
\* ------------------------------------------------------------------------
Parsed == parseOutcome # "none"

Absent == parseOutcome = "returned" /\ parsed = Null

IsText == parseText.t = "string"

Trimmed == Trim(parseText.s)

BeginsStructured == Trimmed # <<>> /\ Trimmed[1] \in {"{", "["}

FirstBrace == IndexOf(Trimmed, "{")

LastBrace == LastIndexOf(Trimmed, "}")

BracePair == FirstBrace >= 0 /\ LastBrace > FirstBrace

Span == SubSeq(Trimmed, FirstBrace + 1, LastBrace + 1)

Member(obj, key) ==
  IF \E i \in 1..Len(obj.a) : obj.a[i].k = key
    THEN (CHOOSE f \in {obj.a[i] : i \in 1..Len(obj.a)} : f.k = key)
    ELSE Undefined

\* C14: for an empty string, a null or absent argument and a text that is
\* only whitespace, parseAssistantJson yields absent, and no text is handed
\* to JSON.parse.
C14_BlankAbsent ==
  (Parsed /\ (parseText \in {Undefined, Null} \/ (IsText /\ IsBlank(parseText.s))))
    => (Absent /\ attempts = <<>>)

C14_Witness ==
  /\ Parsed
  /\ parseText = Str(<<" ", " ">>)
  /\ Absent
  /\ attempts = <<>>

\* C15: when the trimmed text starts with '{' or '[', the whole trimmed text
\* is the one text handed to JSON.parse; the call returns the value it
\* denotes when it is valid JSON and absent otherwise, and the substring
\* step is not attempted. The greet reply yields an object whose intent is
\* "greet".
C15_WholeText ==
  (Parsed /\ IsText /\ BeginsStructured) =>
    /\ parseOutcome = "returned"
    /\ attempts = <<Trimmed>>
    /\ parsed = IF JSONparse(Trimmed).ok THEN JSONparse(Trimmed).v ELSE Null
    /\ Trimmed = GreetText =>
         (parsed.t = "object" /\ Member(parsed, "intent").s = <<"greet">>)

C15_Witness ==
  /\ Parsed
  /\ parseText = Str(<<" ">> \o GreetText \o <<"\n">>)
  /\ attempts = <<GreetText>>
  /\ parsed = GreetObject

C15_FailureWitness ==
  /\ Parsed
  /\ parseText = Str(<<"{", "}", " ", "}">>)
  /\ Absent
  /\ attempts = <<parseText.s>>

\* C16: when the trimmed text starts with neither '{' nor '[' and its first
\* '{' comes before its last '}', the inclusive substring between them is
\* the one text handed to JSON.parse and the call returns the value it
\* denotes. The reply 'Sure! {...} Let me know if you need more.' yields the
\* object whose data.today_kcal_consumed is 500.
C16_SubstringStep ==
  (Parsed /\ IsText /\ ~BeginsStructured /\ BracePair) =>
    /\ attempts = <<Span>>
    /\ JSONparse(Span).ok => (parseOutcome = "returned" /\ parsed = JSONparse(Span).v)
    /\ parseText.s = SnapshotText =>
         Member(Member(parsed, "data"), "today_kcal_consumed") = Field("today_kcal_consumed", Num(500))

C16_Witness ==
  /\ Parsed
  /\ parseText = Str(SnapshotText)
  /\ attempts = <<JSONstringify(SnapshotObject)>>
  /\ parsed = SnapshotObject

\* C17: a text that starts with neither '{' nor '[' and has no '{' followed
\* later by a '}' yields absent.
C17_NoPairAbsent ==
  (Parsed /\ IsText /\ ~BeginsStructured /\ ~BracePair) => (Absent /\ attempts = <<>>)

C17_Witness ==
  /\ Parsed
  /\ parseText = Str(SorryText)
  /\ Absent

C17_ReversedPairWitness ==
  /\ Parsed
  /\ parseText = Str(<<"}", "a", "{">>)
  /\ Absent

\* C18: no call ends by throwing; a call whose text handed to JSON.parse is
\* not valid JSON returns absent (so does the truncated '{"intent": "broken"').
C18_NoThrow ==
  Parsed =>
    /\ parseOutcome = "returned"
    /\ (attempts # <<>> /\ ~JSONparse(attempts[Len(attempts)]).ok) => parsed = Null

C18_Witness ==
  /\ Parsed
  /\ parseText = Str(BrokenText)
  /\ attempts = <<BrokenText>>
  /\ ~JSONparse(BrokenText).ok
  /\ Absent

\* C19: every result is absent or an object or array that JSON.parse
\* produced, never a bare number, string, boolean or null; an object is
\* returned as parsed whatever its fields, with or without an intent.
C19_ObjectOrArray ==
  (Parsed /\ parseOutcome = "returned") =>
    /\ parsed = Null \/ parsed.t \in {"object", "array"}
    /\ (attempts # <<>> /\ JSONparse(attempts[Len(attempts)]).ok) =>
         /\ parsed.t \in {"object", "array"}
         /\ parsed = JSONparse(attempts[Len(attempts)]).v

C19_Witness ==
  /\ Parsed
  /\ parseText = Str(<<"{", " ", "\"", "a", "\"", " ", ":", " ", "5", " ", "}">>)
  /\ parsed = Obj(<<Field("a", Num(5))>>)
  /\ Member(parsed, "intent") = Undefined

IsProse(str) == \A i \in 1..Len(str) : str[i] \notin {"{", "}", "[", "]"}

RawFirstBrace == IndexOf(parseText.s, "{")

RawLastBrace == LastIndexOf(parseText.s, "}")

EmbeddedObject == SubSeq(parseText.s, RawFirstBrace + 1, RawLastBrace + 1)

\* the text is prose, one valid JSON object, prose; either prose may be empty
ProseAroundObject ==
  /\ IsText
  /\ RawFirstBrace >= 0
  /\ RawLastBrace > RawFirstBrace
  /\ IsProse(SubSeq(parseText.s, 1, RawFirstBrace))
  /\ IsProse(SubSeq(parseText.s, RawLastBrace + 2, Len(parseText.s)))
  /\ JSONparse(EmbeddedObject).ok
  /\ JSONparse(EmbeddedObject).v.t = "object"

\* C20: for a text made of optional leading prose, one valid JSON object and
\* optional trailing prose, where the prose has no braces, the call returns
\* that object, also when only trailing prose is present.
C20_ProseTolerated ==
  (Parsed /\ ProseAroundObject) => parsed = JSONparse(EmbeddedObject).v

\* the part of C20 the code meets: prose in front of the object
C20_LeadingProse ==
  (Parsed /\ ProseAroundObject /\ ~BeginsStructured) => parsed = JSONparse(EmbeddedObject).v

C20_TrailingOnly ==
  /\ Parsed
  /\ parseText = Str(JSONstringify(SnapshotObject) \o <<" Let me know if you need more.">>)
  /\ ProseAroundObject
  /\ Absent

\* ------------------------------------------------------------------------
\* Concurrent call sites
\* ------------------------------------------------------------------------
Building(p) == sites[p].pc \in {"examples", "user", "return"}

\* C13: under every interleaving of invocations at several call sites, an
\* invocation that has returned holds the result the same call yields when
\* run alone, and the array an invocation fills is touched by no other
\* invocation: it is empty unless its own site is filling it, and it holds
\* exactly what that site has pushed so far.
C13_Independent ==
  \A p \in CallSites :
    /\ (sites[p].pc = "done" /\ sites[p].kind = "build" /\ ~sites[p].threw) =>
         sites[p].built = buildMessages(sites[p].opts, FewShotInit)
    /\ (sites[p].pc = "done" /\ sites[p].kind = "parse") =>
         sites[p].got = parseAssistantJson(sites[p].text)
    /\ ~Building(p) => frames[p] = <<>>
    /\ Building(p) =>
         frames[p] = SubSeq(buildMessages(sites[p].opts, FewShotInit), 1, Len(frames[p]))

\* two builds with different arguments are under way at once, and a third
\* invocation has returned meanwhile
C13_Witness ==
  /\ sites[1].pc = "done"
  /\ sites[1].kind = "build"
  /\ Len(sites[1].built) = 3 + FewShotCount
  /\ sites[2].pc = "examples"
  /\ sites[2].i = 4
  /\ sites[2].opts # sites[1].opts
  /\ Len(frames[2]) = 5

\* ------------------------------------------------------------------------
\* Profile and session fields in the session context
\* ------------------------------------------------------------------------
ChunkIndex(str, chunk) == CHOOSE i \in 1..Len(str) : str[i] = chunk

\* the text between 'User profile: ' and the '.' that ends the block
ProfileJson(c) ==
  SubSeq(c, ChunkIndex(c, "User profile: ") + 1, ChunkIndex(c, "Session state: ") - 3)

\* the text between 'Session state: ' and the '.' that ends the block
SessionJson(c) ==
  SubSeq(c, ChunkIndex(c, "Session state: ") + 1,
            ChunkIndex(c, "Assistant response language: ") - 3)

\* the fields of a record that have a value
Supplied(record) == Obj(SelectSeq(record.a, LAMBDA f : f.t # "undefined"))

HasKeys(record) == record.t = "object" /\ record.a # <<>>

\* C21: the serialized profile (session) block of the second system message
\* denotes exactly the fields the caller supplied, each with the caller's
\* value; a field the caller left out is not in it.
C21_NoSilentDefaults ==
  Called =>
    LET c == returned[2].content IN
      /\ HasKeys(opts.userProfile) =>
           /\ JSONparse(ProfileJson(c)).ok
           /\ JSONparse(ProfileJson(c)).v = Supplied(opts.userProfile)
      /\ HasKeys(opts.sessionState) =>
           /\ JSONparse(SessionJson(c)).ok
           /\ JSONparse(SessionJson(c)).v = Supplied(opts.sessionState)

C21_Witness ==
  /\ outcome = "returned"
  /\ opts.userProfile = SampleProfile
  /\ opts.sessionState = SampleSession
  /\ Member(JSONparse(ProfileJson(returned[2].content)).v, "sex") = Undefined
  /\ Member(JSONparse(ProfileJson(returned[2].content)).v, "weight_kg") = Undefined
  /\ Member(JSONparse(ProfileJson(returned[2].content)).v, "age") = Field("age", Num(28))

\* ------------------------------------------------------------------------
\* Limits of the first-'{' / last-'}' extraction
\* ------------------------------------------------------------------------
\* some string member of the object holds a '}'
HasBraceInString(v) ==
  \E i \in 1..Len(v.a) :
    v.a[i].t = "string" /\ \E j \in 1..Len(v.a[i].s) : v.a[i].s[j] = "}"

\* prose, then one valid JSON object with a '}' inside a string literal,
\* then prose; the substring step is the one taken
BraceInsideLiteral ==
  /\ ProseAroundObject
  /\ ~BeginsStructured
  /\ HasBraceInString(JSONparse(EmbeddedObject).v)

\* C22 as stated: the extraction yields absent on text whose embedded JSON
\* object has a string literal containing '}' before the object's closing
\* brace.
C22_Original ==
  (Parsed /\ BraceInsideLiteral) => Absent

\* C22 as amended: a '}' inside a string literal of the embedded object does
\* not make the extraction fail; with brace-free prose around it the last
\* '}' of the text is the object's closing brace and the call returns the
\* object.
C22_Amended ==
  (Parsed /\ BraceInsideLiteral) =>
    /\ attempts = <<EmbeddedObject>>
    /\ parsed = JSONparse(EmbeddedObject).v
    /\ parsed.t = "object"

C22_Witness ==
  /\ Parsed
  /\ parseText = Str(<<"Sure! ", "{", "\"", "a", "\"", ":", "\"", "}", "\"", "}",
                       " Let me know if you need more.">>)
  /\ BraceInsideLiteral
  /\ parsed = Obj(<<Field("a", Str(<<"}">>))>>)

\* a JSON value starts at the first '{' and is closed before the last '}'
FirstObjectClosesEarly ==
  /\ BracePair
  /\ \E j \in FirstBrace..(LastBrace - 1) :
       /\ Trimmed[j + 1] = "}"
       /\ JSONparse(SubSeq(Trimmed, FirstBrace + 1, j + 1)).ok

C23_TrailingBraceWitness ==
  /\ Parsed
  /\ parseText = Str(<<"Sure! ">> \o GreetText \o <<" ", "}">>)
  /\ FirstObjectClosesEarly
  /\ Absent

\* ------------------------------------------------------------------------
\* The few-shot turns against the demanded output format
\* ------------------------------------------------------------------------
Intents ==
  {"log_food", "suggest_meal", "get_snapshot", "set_goal", "greet", "farewell",
   "ask_clarifying", "info", "generic"}

\* the reply parses to an object whose intent is one of the listed ones
FollowsFormat(content) ==
  LET r == parseAssistantJson(Str(content)) IN
    /\ r.value.t = "object"
    /\ Member(r.value, "intent").t = "string"
    /\ Concat(Member(r.value, "intent").s) \in Intents

\* C30: every assistant-role message among the few-shot turns of a result
\* parses, with parseAssistantJson, to an object whose intent is one of the
\* nine listed intents.
C30_FewShotFollowsFormat ==
  outcome = "returned" =>
    \A i \in 3..(2 + FewShotCount) :
      returned[i].role = "assistant" => FollowsFormat(returned[i].content)

\* the two serialized examples do follow the format
C30_SerializedExamples ==
  outcome = "returned" =>
    /\ FollowsFormat(returned[4].content)
    /\ FollowsFormat(returned[6].content)

\* the third assistant turn is a plain sentence
C30_ProseExample ==
  /\ outcome = "returned"
  /\ returned[8].role = "assistant"
  /\ parseAssistantJson(Str(returned[8].content)) = ReturnNull

\* ------------------------------------------------------------------------
\* The chat pages
\* ------------------------------------------------------------------------
Key == STORAGE_KEY(page)

\* sendMessage is called in this step: useChat appends the user message and
\* reports "submitted"
SendMessageCalled ==
  /\ status' = "submitted"
  /\ Len(chatMessages'.a) = Len(chatMessages.a) + 1

\* C29: sendMessage is never called while a request is pending (status
\* "submitted" or "streaming"), from the button or from Enter, and only
\* messages of 1 to 2000 characters are sent
C29_OneAtATime ==
  [][SendMessageCalled => /\ status \in {"ready", "error"}
                          /\ formSchemaAccepts(draft.len)]_vars

\* C29, the part that holds: every message sent has 1 to 2000 characters
C29_LengthChecked == [][SendMessageCalled => formSchemaAccepts(draft.len)]_vars

\* C29, the part that holds: the send button is not there while a request is
\* pending, so a send while pending comes from Enter
C29_ButtonWhenIdle ==
  [][(SendMessageCalled /\ status \in {"submitted", "streaming"}) => ~SendButtonShown(status)]_vars

\* a request is pending and the message field holds a message the schema accepts
C29_PendingWithDraft ==
  /\ phase = "ready"
  /\ status = "submitted"
  /\ formSchemaAccepts(draft.len)
  /\ ~InputDisabled(page, status)

C24_UnreadableLoaded ==
  /\ phase = "mounted"
  /\ localStorage[Key] = Garbage
  /\ chatMessages = Arr(<<>>)

\* a step of an open page replaces the transcript by the welcome message alone
InsertsWelcome ==
  /\ phase # "closed"
  /\ chatMessages' # chatMessages
  /\ chatMessages' = Arr(<<WelcomeMessage(now)>>)

StoredEmpty == LengthIsZero(Get(stored, "messages"))

\* the page has run the effects that decide about the welcome message
Decided == phase \in {"welcomed", "ready"}

C26_ClearedStaysEmpty ==
  /\ phase = "ready"
  /\ welcomeShown
  /\ chatMessages = Arr(<<>>)
  /\ status = "error"

\* the page found a transcript and shows it without the welcome message
C26_FoundTranscript ==
  /\ phase = "ready"
  /\ ~welcomeShown
  /\ chatMessages = Get(stored, "messages")
  /\ Len(chatMessages.a) >= 2

\* the items of the saved conversations and of the profile
HistoryItems == <<localStorage[SAVED_CONVS_KEY], localStorage[PROFILE_KEY]>>

Keys(v) == {v.a[i].k : i \in 1..Len(v.a)}

\* the page of part_001 is open
HistoryOpen == HasHistory(page) /\ phase # "closed"

C25_UnreadableLoaded ==
  /\ HistoryOpen
  /\ localStorage[PROFILE_KEY] = Garbage
  /\ profile = DefaultProfile

\* the state SpecSaved starts in, as SpecFill reaches it
FilledReached ==
  /\ page = "part_001"
  /\ phase = "closed"
  /\ localStorage = FilledItems
  /\ now = SavedLimit

SavedItem == localStorage[SAVED_CONVS_KEY]

\* the time in the id of a saved conversation
SavedAt(conv) ==
  CHOOSE t \in 1..(SavedLimit + MaxChatSaves + 1) :
    Get(conv, "id").s = <<"conv-">> \o NatToString(t)

MostRecentFirst(list) == \A i \in 1..(Len(list) - 1) : SavedAt(list[i]) > SavedAt(list[i + 1])

\* list without its i-th entry
Dropped(list, i) == [j \in 1..(Len(list) - 1) |-> IF j < i THEN list[j] ELSE list[j + 1]]

C28_Loaded ==
  /\ phase = "ready"
  /\ Len(savedConversations.a) = SavedLimit
  /\ Get(savedConversations.a[1], "messages") = Arr(<<>>)
  /\ chatMessages = Get(savedConversations.a[2], "messages")
  /\ chatMessages # Arr(<<>>)

\* an entry in the middle of the list was deleted
C28_Deleted ==
  /\ phase = "ready"
  /\ deletes = 1
  /\ Len(savedConversations.a) = SavedLimit - 1
  /\ SavedAt(savedConversations.a[1]) = SavedLimit + 2
  /\ SavedAt(savedConversations.a[2]) = SavedLimit

====
